---- MODULE Spec2Model ----
(***************************************************************************)
(* A model of the trading coordinator of project-xylen:                    *)
(*   - RiskManager        (src/coordinator/risk_manager.py)                 *)
(*   - TradingCoordinator (src/coordinator/coordinator.py), heartbeat loop  *)
(*   - BinanceClient      (src/coordinator/binance_client.py), order store  *)
(*   - RateLimiter        (src/coordinator/binance_client.py)               *)
(*                                                                         *)
(* Units.  Time is counted in ticks of six hours, so that the hard-coded   *)
(* day of 86400 s is DaySeconds = 4 ticks; the configured durations are    *)
(* given in the same ticks.  Money is counted in units of 100 USD.          *)
(* Percentages are whole percents and compared by cross-multiplication.    *)
(***************************************************************************)
EXTENDS Integers, Sequences, FiniteSets, TLC

VARIABLES
    now,        \* time.time(), in ticks
    rm,         \* the RiskManager object (a record of its fields)
    verdict,    \* what the operation just performed returned (validate_trade)
    call,       \* the arguments of that validate_trade call
    loss_run,   \* the caller's count of the losing closes in a row so far
    is_running, \* TradingCoordinator.is_running
    main_loop,  \* where the _main_loop task is
    open_trades,    \* len(TradingCoordinator.open_trades)
    shutdown_called, \* TradingCoordinator.shutdown() has run
    bc,         \* the BinanceClient object (dry_run, initialize() done)
    orders_db,  \* ./data/orders.db: whether table orders exists, and its rows
    ret,        \* what the BinanceClient operation just performed returned
    rl,         \* the RateLimiter object (tokens, last_update, lock, sleeper)
    rl_now,     \* time.time() as the RateLimiter reads it, in seconds
    rl_waiting, \* acquire() calls queued on RateLimiter.lock
    rl_returned, \* acquire() calls that have returned
    health_loop, \* where the _health_check_loop task is
    ws_server,   \* where the _websocket_server task is
    cycle,       \* the locals of the decision cycle of this heartbeat
    events,      \* the records the DataLogger appended in this heartbeat
    cycles_in_flight, \* _decision_cycle calls entered and not yet returned
    errors_captured, \* errors caught at the boundary of a decision cycle, capped
    model_performance, \* EnsembleAggregator.model_performance, by model key
    engine,      \* the EnsembleEngine object (configuration, performance)
    fn_call,     \* the arguments of the function call just made
    fn_result,   \* what that call returned
    lifecycle,   \* start(): the collaborators initialized, in order, what each
                 \* holds open, and the events written to the DataLogger
    ws           \* the dashboard: ws_clients and the broadcasts under way

riskVars == <<now, rm, verdict, call, loss_run>>
coordVars == <<is_running, main_loop, open_trades, shutdown_called>>
clientVars == <<bc, orders_db, ret>>
limiterVars == <<rl, rl_now, rl_waiting, rl_returned>>
taskVars == <<health_loop, ws_server>>
cycleVars == <<cycle, events, cycles_in_flight, errors_captured>>
callVars == <<model_performance, engine, fn_call, fn_result>>
serverVars == <<lifecycle, ws>>
vars == <<now, rm, verdict, call, loss_run,
          is_running, main_loop, open_trades, shutdown_called,
          bc, orders_db, ret, rl, rl_now, rl_waiting, rl_returned,
          health_loop, ws_server, cycle, events, cycles_in_flight, errors_captured,
          model_performance, engine, fn_call, fn_result, lifecycle, ws>>

\* start() has not run: nothing initialized, nothing open, nothing written
LifecycleInit ==
    [ initialized |-> <<>>, opened |-> {}, written |-> <<>> ]

\* the WebSocket connections the dashboard server is given, each once
Clients == {"c1", "c2"}

\* the tasks that await _broadcast_status_update: the heartbeat at the end
\* of a decision cycle, the health check, and handle_client of a connection
Broadcasters == {"main_loop", "health_check"} \cup Clients

\* a call of _broadcast_update that has not started
NoBroadcast ==
    [ phase |-> "none", snapshot |-> {}, visited |-> {}, current |-> "",
      disconnected |-> {}, stayed |-> {}, delivered |-> {}, outcome |-> "",
      missed |-> {} ]

\* self.ws_clients = set(): no dashboard client connected, no broadcast
\* under way
DashboardInit ==
    [ ws_clients |-> {}, peers |-> {},
      handler |-> [c \in Clients |-> "none"],
      broadcast |-> [t \in Broadcasters |-> NoBroadcast],
      started |-> 0 ]

(***************************************************************************)
(* Bounds of the model.                                                    *)
(***************************************************************************)
MaxTime   == 5      \* the clock stops advancing here
MaxTrades == 3      \* record_trade calls explored
MaxAcquires == 15   \* acquire() calls explored
MaxSeconds == 20    \* the RateLimiter's clock stops advancing here

(***************************************************************************)
(* Python values.                                                          *)
(***************************************************************************)
None == 0 - 1
\* Python truthiness of an Optional[float]: None and 0.0 are both falsy.
Truthy(x) == x # None /\ x # 0
StartTime == 1      \* time.time() at construction (positive)

(***************************************************************************)
(* Configuration (RiskManager.__init__).                                   *)
(***************************************************************************)
max_open_positions == 1
max_daily_trades == 3
min_trade_interval == 1
max_daily_loss_percent == 5
max_daily_loss_usd == 15
emergency_shutdown_loss_percent == 20
max_total_exposure_usd == 500
circuit_breaker_consecutive_losses == 3
circuit_breaker_cooldown == 2
circuit_breaker_reset_on_win == TRUE
DaySeconds == 4

CLOSED == "closed"
OPEN == "open"

\* rejection reasons of validate_trade, by the text each message starts with
R_EMERGENCY == "Emergency shutdown active"
R_BREAKER   == "Circuit breaker open"
R_TRADES    == "Daily trade limit reached"
R_LOSS_PCT  == "Daily loss limit exceeded (percent)"
R_LOSS_USD  == "Daily loss limit exceeded (usd)"
R_POSITIONS == "Max open positions reached"
R_EXPOSURE  == "Total exposure limit exceeded"
R_INTERVAL  == "Trade interval cooldown"
R_MARGIN    == "Insufficient margin"
R_NONE      == "None"

Abs(x) == IF x < 0 THEN 0 - x ELSE x

(***************************************************************************)
(* RiskManager.                                                            *)
(***************************************************************************)
RiskManagerInit(t) ==
    [ trades                    |-> << >>,
      consecutive_losses        |-> 0,
      circuit_breaker_state     |-> CLOSED,
      circuit_breaker_open_time |-> None,
      last_trade_time           |-> None,
      daily_reset_time          |-> t,
      daily_pnl                 |-> 0,
      daily_trade_count         |-> 0,
      emergency_shutdown        |-> FALSE,
      initial_equity            |-> None,
      circuit_breaker_consecutive_losses |-> circuit_breaker_consecutive_losses,
      circuit_breaker_reset_on_win       |-> circuit_breaker_reset_on_win,
      position_size_method               |-> "fixed_fraction" ]

_trigger_circuit_breaker(s, t) ==
    [s EXCEPT !.circuit_breaker_state = OPEN,
              !.circuit_breaker_open_time = t]

_reset_circuit_breaker(s) ==
    [s EXCEPT !.circuit_breaker_state = CLOSED,
              !.circuit_breaker_open_time = None]

\* returns <<allowed, state>>
_check_circuit_breaker(s, t) ==
    IF s.circuit_breaker_state = CLOSED THEN <<TRUE, s>>
    ELSE IF s.circuit_breaker_state = OPEN
         THEN IF Truthy(s.circuit_breaker_open_time)
                 /\ t - s.circuit_breaker_open_time >= circuit_breaker_cooldown
              THEN <<TRUE, _reset_circuit_breaker(s)>>
              ELSE <<FALSE, s>>
         ELSE <<FALSE, s>>

circuit_breaker_active(s) == s.circuit_breaker_state = OPEN

_trigger_emergency_shutdown(s) == [s EXCEPT !.emergency_shutdown = TRUE]

\* _reset_daily_metrics_if_needed zeroing the loss counter as well
_reset_daily_metrics_if_needed_all(s, t) ==
    IF t - s.daily_reset_time >= DaySeconds
    THEN [s EXCEPT !.daily_reset_time = t,
                   !.daily_pnl = 0,
                   !.daily_trade_count = 0,
                   !.consecutive_losses = 0]
    ELSE s

_reset_daily_metrics_if_needed(s, t) ==
    IF t - s.daily_reset_time >= DaySeconds
    THEN [s EXCEPT !.daily_reset_time = t,
                   !.daily_pnl = 0,
                   !.daily_trade_count = 0]
    ELSE s

\* ValidateLimits with the open-positions and the exposure checks exchanged
ValidateLimits_swapped(s, m, size, t) ==
    IF s.daily_trade_count >= max_daily_trades THEN R_TRADES
    ELSE IF Truthy(s.initial_equity)
            /\ s.daily_pnl < 0
            /\ Abs(s.daily_pnl) * 100 > max_daily_loss_percent * s.initial_equity
         THEN R_LOSS_PCT
    ELSE IF s.daily_pnl < 0 - max_daily_loss_usd THEN R_LOSS_USD
    ELSE IF m.total_exposure + size > max_total_exposure_usd THEN R_EXPOSURE
    ELSE IF m.open_positions >= max_open_positions THEN R_POSITIONS
    ELSE IF Truthy(s.last_trade_time)
            /\ t - s.last_trade_time < min_trade_interval
         THEN R_INTERVAL
    ELSE IF size > m.available_margin THEN R_MARGIN
    ELSE R_NONE

\* The checks of validate_trade that follow the daily reset, in source order.
ValidateLimits(s, m, size, t) ==
    IF s.daily_trade_count >= max_daily_trades THEN R_TRADES
    ELSE IF Truthy(s.initial_equity)
            /\ s.daily_pnl < 0
            /\ Abs(s.daily_pnl) * 100 > max_daily_loss_percent * s.initial_equity
         THEN R_LOSS_PCT
    ELSE IF s.daily_pnl < 0 - max_daily_loss_usd THEN R_LOSS_USD
    ELSE IF m.open_positions >= max_open_positions THEN R_POSITIONS
    ELSE IF m.total_exposure + size > max_total_exposure_usd THEN R_EXPOSURE
    ELSE IF Truthy(s.last_trade_time)
            /\ t - s.last_trade_time < min_trade_interval
         THEN R_INTERVAL
    ELSE IF size > m.available_margin THEN R_MARGIN
    ELSE R_NONE

\* validate_trade(risk_metrics, proposed_size_usd) at time t:
\* [valid, reason, state], state being the RiskManager after the call.
validate_trade(s, m, size, t) ==
    IF s.emergency_shutdown
    THEN [valid |-> FALSE, reason |-> R_EMERGENCY, state |-> s]
    ELSE LET cb == _check_circuit_breaker(s, t) IN
         IF ~cb[1]
         THEN [valid |-> FALSE, reason |-> R_BREAKER, state |-> cb[2]]
         ELSE LET s2 == _reset_daily_metrics_if_needed(cb[2], t)
                  r  == ValidateLimits(s2, m, size, t)
              IN  [valid |-> (r = R_NONE), reason |-> r, state |-> s2]

record_trade(s, side, entry_price, quantity, t) ==
    [s EXCEPT !.trades = Append(@, [side |-> side, entry_price |-> entry_price,
                                    quantity |-> quantity, closed |-> FALSE,
                                    pnl |-> 0]),
              !.last_trade_time = t,
              !.daily_trade_count = @ + 1]

TradePnl(trade, exit_price) ==
    IF trade.side = "BUY"
    THEN (exit_price - trade.entry_price) * trade.quantity
    ELSE (trade.entry_price - exit_price) * trade.quantity

\* NextConsecutiveLosses counting a break-even close as a loss
NextConsecutiveLosses_nonpositive(s, pnl) ==
    IF pnl <= 0 THEN s.consecutive_losses + 1
    ELSE IF s.circuit_breaker_reset_on_win THEN 0
    ELSE s.consecutive_losses

\* consecutive_losses after a close with this pnl
NextConsecutiveLosses(s, pnl) ==
    IF pnl < 0 THEN s.consecutive_losses + 1
    ELSE IF s.circuit_breaker_reset_on_win THEN 0
    ELSE s.consecutive_losses

\* CloseUpdateBreaker comparing with > where the source compares with >=
CloseUpdateBreaker_late(s, pnl, t) ==
    LET s1 == [s EXCEPT !.consecutive_losses = NextConsecutiveLosses(s, pnl)] IN
    IF pnl < 0 /\ s1.consecutive_losses > s1.circuit_breaker_consecutive_losses
    THEN _trigger_circuit_breaker(s1, t)
    ELSE s1

\* the consecutive-loss counter and the breaker after a close with this pnl
CloseUpdateBreaker(s, pnl, t) ==
    LET s1 == [s EXCEPT !.consecutive_losses = NextConsecutiveLosses(s, pnl)] IN
    IF pnl < 0 /\ s1.consecutive_losses >= s1.circuit_breaker_consecutive_losses
    THEN _trigger_circuit_breaker(s1, t)
    ELSE s1

\* CloseCheckEmergency assigning the flag instead of latching it
CloseCheckEmergency_unlatched(s) ==
    [s EXCEPT !.emergency_shutdown =
        Truthy(s.initial_equity)
        /\ (s.initial_equity - (s.initial_equity + s.daily_pnl)) * 100
               >= emergency_shutdown_loss_percent * s.initial_equity]

\* the emergency-shutdown check that ends close_trade
CloseCheckEmergency(s) ==
    IF Truthy(s.initial_equity)
       /\ (s.initial_equity - (s.initial_equity + s.daily_pnl)) * 100
              >= emergency_shutdown_loss_percent * s.initial_equity
    THEN _trigger_emergency_shutdown(s)
    ELSE s

\* close_trade(trade, exit_price) at time t, trade being trades[i]
close_trade(s, i, exit_price, t) ==
    LET pnl == TradePnl(s.trades[i], exit_price)
        s1  == [s EXCEPT !.trades[i].closed = TRUE,
                         !.trades[i].pnl = pnl,
                         !.daily_pnl = @ + pnl]
    IN  CloseCheckEmergency(CloseUpdateBreaker(s1, pnl, t))

update_initial_equity(s, equity) ==
    IF s.initial_equity = None
    THEN [s EXCEPT !.initial_equity = equity]
    ELSE s

(***************************************************************************)
(* Inputs explored.                                                        *)
(***************************************************************************)
EntryPrices == {50}
ExitPrices  == {40, 50, 60}
Sides       == {"BUY"}
Quantities  == {1}
\* the account's equity (10000 USD), which update_initial_equity is given
AccountEquity == 100
\* proposed_size_usd
Sizes == {100}
MetricsSet ==
    [ open_positions   : {0, 1},
      total_exposure   : {0, 450},
      available_margin : {50, 1000} ]
NoCall == [ metrics |-> [ open_positions |-> 0, total_exposure |-> 0,
                          available_margin |-> 0 ],
            size |-> 0 ]
\* no validate_trade result is at hand (another operation ran since)
NoVerdict == [ valid |-> FALSE, reason |-> "not called" ]
Returned == verdict # NoVerdict
NoReturn == verdict' = NoVerdict /\ call' = NoCall

(***************************************************************************)
(* BinanceClient: place_order and the order store.                         *)
(* An OrderState keeps the fields the store is read back for; quantities   *)
(* are counted in units of 0.0001 and prices in units of 1000 USD.  The     *)
(* dry-run order id int(time.time() * 1000) is the reading of the clock.   *)
(***************************************************************************)
\* NEW is a reserved word of TLA+
STATUS_NEW       == "NEW"
PARTIALLY_FILLED == "PARTIALLY_FILLED"
FILLED           == "FILLED"
CANCELED         == "CANCELED"
REJECTED         == "REJECTED"
EXPIRED          == "EXPIRED"
OrderStatus == {STATUS_NEW, PARTIALLY_FILLED, FILLED, CANCELED, REJECTED, EXPIRED}
MARKET == "MARKET"
LIMIT  == "LIMIT"

\* The Enum classes: the value of every member, by the member's name.
EnumMembers ==
    [ OrderStatus |-> ( STATUS_NEW       :> "NEW"
                     @@ PARTIALLY_FILLED :> "PARTIALLY_FILLED"
                     @@ FILLED           :> "FILLED"
                     @@ CANCELED         :> "CANCELED"
                     @@ REJECTED         :> "REJECTED"
                     @@ EXPIRED          :> "EXPIRED" ),
      OrderSide   |-> ( "BUY" :> "BUY" @@ "SELL" :> "SELL" ),
      OrderType   |-> ( MARKET               :> "MARKET"
                     @@ LIMIT                :> "LIMIT"
                     @@ "STOP_MARKET"        :> "STOP_MARKET"
                     @@ "TAKE_PROFIT_MARKET" :> "TAKE_PROFIT_MARKET" ) ]

\* the Enum class of the fields of an OrderState that hold a member
EnumFields == [ status |-> "OrderStatus", side |-> "OrderSide", type |-> "OrderType" ]

\* member.value
EnumValue(enum, member) == EnumMembers[enum][member]
\* Enum[name]: the member of that name
EnumByName(enum, name) ==
    IF name \in DOMAIN EnumMembers[enum] THEN name ELSE "KeyError"

OrderState(order_id, status, filled_qty, avg_price) ==
    [ order_id |-> order_id, status |-> status,
      filled_qty |-> filled_qty, avg_price |-> avg_price,
      stop_loss_order_id |-> None, take_profit_order_id |-> None ]

\* no row / no OrderState (Python None)
NoOrder == OrderState(None, "None", 0, 0)

ExchangeOrderIds == {1, 2}
OrderIds == (1..(MaxTime + 1)) \cup ExchangeOrderIds

\* __init__: session None; the database file is whatever an earlier run left
BinanceClientInit(dry) == [ dry_run |-> dry, ready |-> FALSE ]
OrdersDbInit(table) == [ table |-> table, rows |-> [i \in OrderIds |-> NoOrder] ]

\* round(quantity, 3) when symbol_info is not loaded: to the nearest
\* multiple of 10 units, a tie going to the even one
_round_quantity(q) ==
    LET lo == (q \div 10) * 10
        r  == q - lo
    IN  IF r < 5 THEN lo
        ELSE IF r > 5 THEN lo + 10
        ELSE IF (lo \div 10) % 2 = 0 THEN lo ELSE lo + 10

DryRunPrice == 50       \* 50000.0

\* the VALUES of the INSERT: the fields of the order, members by value
OrderRow(order) ==
    [ f \in DOMAIN order |->
        IF f \in DOMAIN EnumFields
        THEN EnumValue(EnumFields[f], order[f]) ELSE order[f] ]

\* OrderState(order_id=row[0], ...): members looked up by name
OrderFromRow(row) ==
    [ f \in DOMAIN row |->
        IF f \in DOMAIN EnumFields
        THEN EnumByName(EnumFields[f], row[f]) ELSE row[f] ]

\* INSERT OR REPLACE INTO orders: fails when the table does not exist
_save_order_state(db, order) ==
    IF db.table
    THEN [ ok |-> TRUE, db |-> [db EXCEPT !.rows[order.order_id] = OrderRow(order)] ]
    ELSE [ ok |-> FALSE, db |-> db ]

\* SELECT * FROM orders WHERE order_id = ?: None when there is no row
_load_order_state(db, order_id) ==
    IF db.rows[order_id] = NoOrder THEN NoOrder
    ELSE OrderFromRow(db.rows[order_id])

\* Positional parameters, after self, of the definitions in force: a later
\* def of the same name in the class body replaces the earlier one.
_place_stop_loss_params   == 4   \* symbol, side, quantity, stop_price
_place_take_profit_params == 4   \* symbol, side, quantity, take_profit_price
get_order_status_params   == 2   \* symbol, order_id
Binds(nargs, nparams) == nargs = nparams

\* bound correctly the legacy body fails on self.client inside its own try
_place_stop_loss(nargs) ==
    IF Binds(nargs, _place_stop_loss_params) THEN "None" ELSE "TypeError"
_place_take_profit(nargs) ==
    IF Binds(nargs, _place_take_profit_params) THEN "None" ELSE "TypeError"
\* the legacy body calls self.get_order_status(order_id), one argument
get_order_status(nargs) ==
    IF Binds(nargs, get_order_status_params) /\ Binds(1, get_order_status_params)
    THEN "recursion" ELSE "TypeError"

\* what the exchange answers to POST /fapi/v1/order
ApiError == [ error |-> TRUE, orderId |-> None, status |-> "error",
              executedQty |-> 0, avgPrice |-> 0 ]
OrderData(id, status) ==
    [ error |-> FALSE, orderId |-> id, status |-> status,
      executedQty |-> IF status = FILLED THEN 20
                      ELSE IF status = PARTIALLY_FILLED THEN 10 ELSE 0,
      avgPrice |-> IF status \in {FILLED, PARTIALLY_FILLED} THEN 50 ELSE 0 ]
OrderAcks == { OrderData(id, st) : id \in ExchangeOrderIds, st \in OrderStatus }
\* GET /fapi/v1/openOrders lists orders that are still working
OpenOrderData == { OrderData(id, st) : id \in ExchangeOrderIds,
                                       st \in {STATUS_NEW, PARTIALLY_FILLED} }
OpenOrdersReplies ==
    {<<>>} \cup { <<d>> : d \in OpenOrderData }
           \cup { <<d, e>> : d \in OpenOrderData, e \in OpenOrderData }

FromData(d) == OrderState(d.orderId, d.status, d.executedQty, d.avgPrice)

Result(outcome, value, db) == [ outcome |-> outcome, value |-> value, db |-> db ]

\* if self.dry_run: ... (outside the try of place_order)
place_order_dry_run(db, quantity, price, t) ==
    LET order_state == OrderState(t, FILLED, _round_quantity(quantity),
                                  IF Truthy(price) THEN price ELSE DryRunPrice)
        saved == _save_order_state(db, order_state)
    IN  IF saved.ok THEN Result("OrderState", order_state, saved.db)
        ELSE Result("raised", NoOrder, db)

\* if order_type == OrderType.LIMIT: if price is None: raise ValueError
PriceMissing(order_type, price) == order_type = LIMIT /\ price = None

\* try: ... except Exception: return None
place_order_live(db, reply, stop_loss, take_profit) ==
    LET order_state == FromData(reply)
        saved == _save_order_state(db, order_state)
        sl == IF Truthy(stop_loss) THEN _place_stop_loss(2) ELSE "skipped"
        tp == IF Truthy(take_profit) THEN _place_take_profit(2) ELSE "skipped"
    IN  IF reply.error THEN Result("None", NoOrder, db)
        ELSE IF ~saved.ok THEN Result("None", NoOrder, db)
        ELSE IF sl = "TypeError" THEN Result("None", NoOrder, saved.db)
        ELSE IF tp = "TypeError" THEN Result("None", NoOrder, saved.db)
        ELSE Result("OrderState", order_state, saved.db)

RECURSIVE SaveAll(_, _)
SaveAll(db, data) ==
    IF data = <<>> THEN db
    ELSE SaveAll(_save_order_state(db, FromData(Head(data))).db, Tail(data))

monitor_orders(client, db, failed, data) ==
    IF client.dry_run \/ failed THEN db ELSE SaveAll(db, data)

\* dry run returns at once; otherwise the table is created first and the
\* requests that follow may raise
initialize(client, db, ok) ==
    IF client.dry_run
    THEN [ bc |-> [client EXCEPT !.ready = TRUE], db |-> db ]
    ELSE [ bc |-> [client EXCEPT !.ready = ok], db |-> [db EXCEPT !.table = TRUE] ]

NoRet == [ op |-> "none", outcome |-> "none", value |-> NoOrder,
           ack |-> ApiError, quantity |-> 0, price |-> None, requests |-> 0,
           order_type |-> "none" ]

(***************************************************************************)
(* RateLimiter(rate_per_minute).  Its clock is counted in seconds and      *)
(* tokens in units of 1/TokenScale, so that the refill is one unit per     *)
(* second.                                                                 *)
(***************************************************************************)
rate_per_minute == 10
burst == rate_per_minute
TokenScale == 60 \div rate_per_minute

Min(a, b) == IF a < b THEN a ELSE b

RateLimiterInit(t) ==
    [ tokens |-> burst * TokenScale, last_update |-> t,
      locked |-> FALSE, wake_at |-> None ]

\* the body of acquire() up to its await, entered with the lock held
AcquireBody(s, t) ==
    LET elapsed == t - s.last_update
        tokens  == Min(burst * TokenScale, s.tokens + elapsed)
    IN  IF tokens < TokenScale
        THEN [ tokens |-> tokens, last_update |-> t, locked |-> TRUE,
               wake_at |-> t + (TokenScale - tokens) ]
        ELSE [ tokens |-> tokens - TokenScale, last_update |-> t,
               locked |-> FALSE, wake_at |-> None ]

\* after asyncio.sleep(wait_time): self.tokens = 0, the lock is released
AfterSleep(s) == [ s EXCEPT !.tokens = 0, !.locked = FALSE, !.wake_at = None ]

(***************************************************************************)
(* The RiskManager driven through its public operations.                   *)
(***************************************************************************)
(***************************************************************************)
(* EnsembleAggregator.  A prediction is what one model answered: the key   *)
(* of the model, an action and a confidence.  Confidences are in percent   *)
(* and weights in hundredths.                                              *)
(***************************************************************************)
MaxModels == 2
MaxQueries == 2
min_responding_models == 2
Actions == {"long", "short", "hold"}
ModelKeys == 1..MaxModels
WeightScale == 100
PredConfidence == 90
Confidences == {75, 80}

\* __init__: every configured endpoint has weight 1.0 and no query counted
EnsembleAggregatorInit ==
    [key \in ModelKeys |->
        [weight |-> WeightScale, success_count |-> 0, failure_count |-> 0]]

_update_performance(perf, key, success) ==
    IF success
    THEN [perf EXCEPT ![key].success_count = @ + 1]
    ELSE [perf EXCEPT ![key].failure_count = @ + 1]

\* get_model_predictions: the predictions of the models that responded; a
\* count below min_responding is logged as a warning and nothing else
get_model_predictions(responses) == responses

\* success_rate ** weight_decay for weight_decay = 0.95, in hundredths:
\* 0 when no query succeeded (0 ** 0.95), 1 when none failed
DecayedSuccessRate(success, failure) ==
    IF success = 0 THEN 0
    ELSE IF failure = 0 THEN WeightScale
    ELSE CASE success = failure              -> 52
           [] success = 1 /\ failure = 2     -> 35
           [] success = 1 /\ failure = 3     -> 27
           [] success = 2 /\ failure = 1     -> 68
           [] success = 2 /\ failure = 3     -> 42
           [] success = 3 /\ failure = 1     -> 76
           [] success = 3 /\ failure = 2     -> 62

\* performance_weight = base_weight * (success_rate ** weight_decay)
performance_weight(perf, key) ==
    (perf[key].weight
        * DecayedSuccessRate(perf[key].success_count, perf[key].failure_count))
    \div WeightScale

RECURSIVE Votes(_, _, _)
\* votes[a]: the sum of confidence * performance_weight over the
\* predictions that name action a
Votes(perf, predictions, a) ==
    IF predictions = <<>> THEN 0
    ELSE LET pred == Head(predictions)
             vote_value == pred.confidence * performance_weight(perf, pred.model_key)
         IN  (IF pred.action = a THEN vote_value ELSE 0)
             + Votes(perf, Tail(predictions), a)

RECURSIVE TotalWeight(_, _)
TotalWeight(perf, predictions) ==
    IF predictions = <<>> THEN 0
    ELSE performance_weight(perf, Head(predictions).model_key)
         + TotalWeight(perf, Tail(predictions))

\* _weighted_vote; max(votes, key=votes.get) is the first largest of long,
\* short, hold
_weighted_vote(perf, predictions) ==
    LET total_weight == TotalWeight(perf, predictions)
        final_action ==
            IF /\ Votes(perf, predictions, "long") >= Votes(perf, predictions, "short")
               /\ Votes(perf, predictions, "long") >= Votes(perf, predictions, "hold")
            THEN "long"
            ELSE IF Votes(perf, predictions, "short") >= Votes(perf, predictions, "hold")
            THEN "short"
            ELSE "hold"
    IN  IF total_weight = 0
        THEN [action |-> "hold", confidence |-> 0, reason |-> None]
        ELSE [action |-> final_action,
              confidence |-> Votes(perf, predictions, final_action) \div total_weight,
              reason |-> None]

\* aggregate: the decision dictionary carries no reason
aggregate(perf, predictions) ==
    IF predictions = <<>>
    THEN [action |-> "hold", confidence |-> 0, reason |-> None]
    ELSE _weighted_vote(perf, predictions)

\* no function call has been made
NoFnCall == [fn |-> "none"]
NoFnResult == [fn |-> "none"]

(***************************************************************************)
(* EnsembleEngine.  Raw scores, probabilities and confidences are in       *)
(* thousandths, model weights in hundredths, win rates in percent, Sharpe  *)
(* ratios in hundredths, returns and costs in units of 1e-7 (a            *)
(* probability in thousandths times a rate in basis points).               *)
(***************************************************************************)
Milli == 1000
performance_window == 1
confidence_threshold == 700
uncertainty_threshold == 300
stop_loss_pct == 200        \* 0.02, in basis points
take_profit_pct == 500      \* 0.05
slippage_bps == 5
taker_fee_bps == 4

HOLD == "HOLD"
BUY == "BUY"
SELL == "SELL"
E_INSUFFICIENT == "Insufficient responding models"
E_DISAGREEMENT == "High model disagreement"
E_CONFIDENCE == "Confidence below threshold"
E_VALUE == "Expected value below threshold"
E_SIGNAL == "signal"

Max(a, b) == IF a > b THEN a ELSE b
Clip(x, lo, hi) == IF x < lo THEN lo ELSE IF x > hi THEN hi ELSE x

\* a ModelPerformance as _update_model_weights creates it
NewPerformance == [recent_trades |-> <<>>, win_rate |-> 50, sharpe |-> 0]

\* __init__; meta_learner is "none" until _load_meta_learner has loaded one
EnsembleEngineNew(method, calibrator, meta_learner, expected_value_threshold) ==
    [ method                   |-> method,
      min_responding_models    |-> min_responding_models,
      calibrator               |-> calibrator,
      meta_learner             |-> meta_learner,
      expected_value_threshold |-> expected_value_threshold,
      performance_window       |-> performance_window,
      model_performance        |-> [name \in {} |-> NewPerformance] ]

\* __init__ with the defaults, no calibrator fitted, no meta-learner loaded
EnsembleEngineInit ==
    EnsembleEngineNew("bayesian_weighted", FALSE, "none", 100 * Milli)

RECURSIVE Wins(_, _)
\* sum(perf.recent_trades)
Wins(trades, n) ==
    IF n = 0 THEN 0 ELSE (IF trades[n] THEN 1 ELSE 0) + Wins(trades, n - 1)

\* avg_return / std_return of the returns +1 / -1, in hundredths: with w
\* wins of n the mean is (2w - n) / n and the deviation 2 sqrt(w (n - w)) / n
Sharpe(w, n) ==
    IF w = 0 \/ w = n THEN 0
    ELSE LET std10 == CHOOSE r \in 0..(20 * n) :
                         r * r <= 400 * w * (n - w) /\ 400 * w * (n - w) < (r + 1) * (r + 1)
         IN  ((2 * w - n) * 1000) \div std10

\* the ring that drops its newest entry when it is full
Evict_newest(trades, window) ==
    IF Len(trades) > window THEN SubSeq(trades, 1, Len(trades) - 1) ELSE trades

\* if len(perf.recent_trades) > self.performance_window: pop(0)
Evict(trades, window) ==
    IF Len(trades) > window THEN Tail(trades) ELSE trades

\* update_model_performance
update_model_performance(e, name, trade_won) ==
    IF name \notin DOMAIN e.model_performance THEN e
    ELSE LET perf   == e.model_performance[name]
             appended == Append(perf.recent_trades, trade_won)
             trades == Evict(appended, e.performance_window)
             n      == Len(trades)
             w      == Wins(trades, n)
         IN  [e EXCEPT !.model_performance[name] =
                [recent_trades |-> trades,
                 win_rate      |-> (w * 100) \div n,
                 sharpe        |-> IF n > 10 THEN Sharpe(w, n) ELSE perf.sharpe]]

\* _update_model_weights: every model that predicted is tracked
_update_model_weights(e, predictions) ==
    LET names == {predictions[i].model_name : i \in DOMAIN predictions}
    IN  [e EXCEPT !.model_performance =
            [name \in (DOMAIN e.model_performance) \cup names |->
                IF name \in DOMAIN e.model_performance
                THEN e.model_performance[name]
                ELSE NewPerformance]]

\* _get_model_weight right after _update_model_weights (the decay factor is
\* exp(0)): base weight 1.0 times the performance multiplier, within
\* [0.1, 2.0]
_get_model_weight(e, name) ==
    IF name \notin DOMAIN e.model_performance THEN 100
    ELSE LET perf == e.model_performance[name]
             performance_mult ==
                 (perf.win_rate * 60 + Min(perf.sharpe \div 2, 100) * 40) \div 100
         IN  Max(10, Min(performance_mult, 200))

RECURSIVE SumOver(_, _)
\* sum of f[i] over the sequence f
SumOver(f, n) == IF n = 0 THEN 0 ELSE f[n] + SumOver(f, n - 1)

\* np.mean(weighted_scores)
MeanWeightedScore(e, predictions) ==
    LET weighted_scores ==
            [i \in DOMAIN predictions |->
                (predictions[i].raw_score
                    * _get_model_weight(e, predictions[i].model_name)) \div 100]
    IN  SumOver(weighted_scores, Len(predictions)) \div Len(predictions)

\* _bayesian_aggregate: raw scores averaged with weight
\* model_weight * confidence / max(1 - confidence, 0.01), the weight in
\* units of 1e-3
_bayesian_aggregate(e, predictions) ==
    LET final_weight ==
            [i \in DOMAIN predictions |->
                _get_model_weight(e, predictions[i].model_name)
                  * ((predictions[i].confidence
                        * (Milli \div Max(Milli - predictions[i].confidence, 10)))
                     \div 100)]
        weighted ==
            [i \in DOMAIN predictions |->
                predictions[i].raw_score * final_weight[i]]
        weight_sum == SumOver(final_weight, Len(predictions))
    IN  IF weight_sum > 0
        THEN SumOver(weighted, Len(predictions)) \div weight_sum
        ELSE 0

\* the disagreement gate left out
Disagreement_never(predictions) == FALSE

\* np.std(raw_scores) > uncertainty_threshold, as the comparison of the
\* variance n * sum(x^2) - sum(x)^2 with (threshold * n)^2
Disagreement(predictions) ==
    LET n  == Len(predictions)
        x  == [i \in DOMAIN predictions |-> predictions[i].raw_score]
        xx == [i \in DOMAIN predictions |->
                 predictions[i].raw_score * predictions[i].raw_score]
    IN  /\ n > 1
        /\ n * SumOver(xx, n) - SumOver(x, n) * SumOver(x, n)
             > uncertainty_threshold * uncertainty_threshold * n * n

\* _calibrate_probability without np.clip
_calibrate_probability_unclipped(e, raw_score, calibrated) ==
    IF ~e.calibrator \/ calibrated.raises
    THEN (raw_score + Milli) \div 2
    ELSE calibrated.value

\* _calibrate_probability; calibrated is what calibrator.predict returns,
\* or that it raises
_calibrate_probability(e, raw_score, calibrated) ==
    IF ~e.calibrator \/ calibrated.raises
    THEN (raw_score + Milli) \div 2
    ELSE Clip(calibrated.value, 0, Milli)

\* _meta_predict; predicted is what the meta-learner returns, or that it
\* raises
_meta_predict(e, predicted) ==
    IF predicted.raises THEN 500
    ELSE IF e.meta_learner = "lightgbm" THEN Clip(predicted.value, 0, Milli)
    ELSE predicted.value

\* _calculate_expected_value
_calculate_expected_value(action, confidence) ==
    IF action = HOLD THEN 0
    ELSE LET expected_return ==
                 confidence * take_profit_pct
                   - (Milli - confidence) * stop_loss_pct
             total_cost == (slippage_bps + taker_fee_bps) * 2 * Milli
         IN  expected_return - total_cost

_create_hold_decision(reason) ==
    [action |-> HOLD, confidence |-> 0, expected_value |-> 0,
     reasoning |-> reason]

\* aggregate_predictions: <<the decision, the engine afterwards>>
aggregate_predictions(e, predictions, calibrated, predicted) ==
    IF Len(predictions) < e.min_responding_models
    THEN <<_create_hold_decision(E_INSUFFICIENT), e>>
    ELSE
    LET e2 == _update_model_weights(e, predictions)
        agg_score ==
            IF e2.method = "bayesian_weighted"
            THEN _bayesian_aggregate(e2, predictions)
            ELSE MeanWeightedScore(e2, predictions)
        calibrated_prob == _calibrate_probability(e2, agg_score, calibrated)
        final_score ==
            IF e2.meta_learner # "none"
            THEN (7 * calibrated_prob + 3 * _meta_predict(e2, predicted)) \div 10
            ELSE calibrated_prob
        action == IF final_score > 500 THEN BUY
                  ELSE IF final_score < 500 THEN SELL
                  ELSE HOLD
        confidence == IF final_score > 500 THEN final_score
                      ELSE IF final_score < 500 THEN Milli - final_score
                      ELSE 500
        expected_value == _calculate_expected_value(action, confidence)
    IN  IF Disagreement(predictions)
        THEN <<_create_hold_decision(E_DISAGREEMENT), e2>>
        ELSE IF confidence < confidence_threshold
        THEN <<_create_hold_decision(E_CONFIDENCE), e2>>
        ELSE IF expected_value < e2.expected_value_threshold
        THEN <<_create_hold_decision(E_VALUE), e2>>
        ELSE <<[action |-> action, confidence |-> confidence,
                expected_value |-> expected_value, reasoning |-> E_SIGNAL],
               e2>>

(***************************************************************************)
(* The locals of one decision cycle.  In a cycle the responding models are *)
(* the first ones configured, each answers with the same confidence, and   *)
(* each has answered once before and never failed, so that every           *)
(* performance weight is 1.                                                *)
(***************************************************************************)
Predictions == UNION {[1..n -> Actions] : n \in 0..MaxModels}

AsPredictions(actions) ==
    [i \in DOMAIN actions |->
        [model_key |-> i, action |-> actions[i], confidence |-> PredConfidence]]

RespondedOnce ==
    [key \in ModelKeys |->
        [weight |-> WeightScale, success_count |-> 1, failure_count |-> 0]]

\* before any step of the cycle has run: no responses, no decision
NoCycle ==
    [ responding  |-> None,
      predictions |-> <<>>,
      action      |-> "none",
      confidence  |-> None,
      reason      |-> None,
      approved    |-> FALSE,
      placed      |-> FALSE,
      sink_failed |-> FALSE ]

\* DataLogger.log_*: the record is appended, or the error is logged and
\* swallowed and nothing is appended
SinkAppend(ev, kind, ok) == IF ok THEN Append(ev, kind) ELSE ev

RECURSIVE SinkAppendN(_, _, _)
SinkAppendN(ev, kind, n) ==
    IF n = 0 THEN ev ELSE SinkAppendN(Append(ev, kind), kind, n - 1)

InitRisk ==
    /\ now = StartTime
    /\ rm = RiskManagerInit(StartTime)
    /\ verdict = NoVerdict
    /\ call = NoCall
    /\ loss_run = 0
    /\ is_running = FALSE
    /\ main_loop = "constructed"
    /\ open_trades = 0
    /\ shutdown_called = FALSE
    /\ bc = BinanceClientInit(TRUE)
    /\ orders_db = OrdersDbInit(FALSE)
    /\ ret = NoRet
    /\ rl = RateLimiterInit(0)
    /\ rl_now = 0
    /\ rl_waiting = 0
    /\ rl_returned = 0
    /\ health_loop = "constructed"
    /\ ws_server = "disabled"
    /\ cycle = NoCycle
    /\ events = <<>>
    /\ cycles_in_flight = 0
    /\ errors_captured = 0
    /\ model_performance = EnsembleAggregatorInit
    /\ engine = EnsembleEngineInit
    /\ fn_call = NoFnCall
    /\ fn_result = NoFnResult
    /\ lifecycle = LifecycleInit
    /\ ws = DashboardInit

Tick ==
    /\ now < MaxTime
    /\ now' = now + 1
    /\ NoReturn
    /\ UNCHANGED <<rm, loss_run, coordVars, clientVars, limiterVars, taskVars, cycleVars, callVars, serverVars>>

ValidateTrade ==
    \E m \in MetricsSet, size \in Sizes :
        LET r == validate_trade(rm, m, size, now) IN
        /\ rm' = r.state
        /\ verdict' = [valid |-> r.valid, reason |-> r.reason]
        /\ call' = [metrics |-> m, size |-> size]
        /\ UNCHANGED <<now, loss_run, coordVars, clientVars, limiterVars, taskVars, cycleVars, callVars, serverVars>>

RecordTrade ==
    /\ Len(rm.trades) < MaxTrades
    /\ \E side \in Sides, p \in EntryPrices, q \in Quantities :
          rm' = record_trade(rm, side, p, q, now)
    /\ NoReturn
    /\ UNCHANGED <<now, loss_run, coordVars, clientVars, limiterVars, taskVars, cycleVars, callVars, serverVars>>

\* a trade is closed once, by the caller that holds it
CloseTrade ==
    \E i \in 1..Len(rm.trades), x \in ExitPrices :
        /\ ~rm.trades[i].closed
        /\ rm' = close_trade(rm, i, x, now)
        /\ loss_run' = IF TradePnl(rm.trades[i], x) < 0 THEN loss_run + 1 ELSE 0
        /\ NoReturn
        /\ UNCHANGED <<now, coordVars, clientVars, limiterVars, taskVars, cycleVars, callVars, serverVars>>

UpdateInitialEquity ==
    /\ rm' = update_initial_equity(rm, AccountEquity)
    /\ NoReturn
    /\ UNCHANGED <<now, loss_run, coordVars, clientVars, limiterVars, taskVars, cycleVars, callVars, serverVars>>

NextRisk ==
    \/ Tick
    \/ ValidateTrade
    \/ RecordTrade
    \/ CloseTrade
    \/ UpdateInitialEquity

SpecRisk == InitRisk /\ [][NextRisk]_vars

(***************************************************************************)
(* The RiskManager configured with a circuit breaker that opens after two  *)
(* consecutive losses, and with circuit_breaker_reset_on_win set or not.   *)
(***************************************************************************)
Thresholds == {2}

InitRiskConfig ==
    /\ now = StartTime
    /\ \E threshold \in Thresholds, reset_on_win \in BOOLEAN :
          rm = [RiskManagerInit(StartTime) EXCEPT
                   !.circuit_breaker_consecutive_losses = threshold,
                   !.circuit_breaker_reset_on_win = reset_on_win]
    /\ verdict = NoVerdict
    /\ call = NoCall
    /\ loss_run = 0
    /\ is_running = FALSE
    /\ main_loop = "constructed"
    /\ open_trades = 0
    /\ shutdown_called = FALSE
    /\ bc = BinanceClientInit(TRUE)
    /\ orders_db = OrdersDbInit(FALSE)
    /\ ret = NoRet
    /\ rl = RateLimiterInit(0)
    /\ rl_now = 0
    /\ rl_waiting = 0
    /\ rl_returned = 0
    /\ health_loop = "constructed"
    /\ ws_server = "disabled"
    /\ cycle = NoCycle
    /\ events = <<>>
    /\ cycles_in_flight = 0
    /\ errors_captured = 0
    /\ model_performance = EnsembleAggregatorInit
    /\ engine = EnsembleEngineInit
    /\ fn_call = NoFnCall
    /\ fn_result = NoFnResult
    /\ lifecycle = LifecycleInit
    /\ ws = DashboardInit

\* the equity is never recorded here, which leaves out the emergency latch
NextRiskConfig ==
    \/ Tick
    \/ ValidateTrade
    \/ RecordTrade
    \/ CloseTrade

SpecRiskConfig == InitRiskConfig /\ [][NextRiskConfig]_vars

(***************************************************************************)
(* TradingCoordinator: the heartbeat loop (_main_loop), the decision cycle  *)
(* and shutdown, over the coordinator's own RiskManager.  The heartbeat     *)
(* interval (60 s) is far below one tick of the clock, so a sleep ends      *)
(* without the clock having to advance.  The RiskManager's record_trade,    *)
(* close_trade and update_initial_equity are called by the party that       *)
(* follows the trades (the coordinator itself never calls them).            *)
(***************************************************************************)
position_size_fraction == 10    \* percent
\* calculate_position_size works in USD: its balances, sizes and limits are
\* in USD, the win rate and the average win and loss in percent, the Kelly
\* fraction it returns in units of 1e-4 and its quantities in units of 0.001
max_position_size_usd == 1000
min_position_size_usd == 10
kelly_fraction == 25        \* percent
max_leverage == 5
PositionSizeMethods == {"fixed_fraction", "kelly", "fixed_amount"}

\* f* = (p * b - q) / b with b = abs(avg_win / avg_loss), within [0, 1]
KellyCriterion(win_rate, avg_win, avg_loss) ==
    LET f == (win_rate * Abs(avg_win) - (100 - win_rate) * avg_loss)
                 \div Abs(avg_win)
    IN  Max(0, Min(f, 100))

\* kelly_f without the conservative scaling by kelly_fraction
ScaledKelly_full(win_rate, avg_win, avg_loss) ==
    KellyCriterion(win_rate, avg_win, avg_loss) * 100

\* kelly_f *= self.kelly_fraction
ScaledKelly(win_rate, avg_win, avg_loss) ==
    KellyCriterion(win_rate, avg_win, avg_loss) * kelly_fraction

\* the maximum alone, a size below the minimum kept
SizeLimits_kept(size_usd) == Min(size_usd, max_position_size_usd)

\* the maximum and the minimum position size: a size below the minimum
\* becomes 0
SizeLimits(size_usd) ==
    LET capped == Min(size_usd, max_position_size_usd)
    IN  IF capped < min_position_size_usd THEN 0 ELSE capped

\* calculate_position_size(current_price, account_balance, leverage,
\* win_rate, avg_win, avg_loss)
calculate_position_size(s, current_price, account_balance, leverage, win_rate, avg_win, avg_loss) ==
    LET lev == Min(leverage, max_leverage)
        statistics == Truthy(win_rate) /\ Truthy(avg_win) /\ Truthy(avg_loss)
                         /\ avg_loss > 0
        kelly_f ==
            IF s.position_size_method = "kelly" /\ statistics
            THEN ScaledKelly(win_rate, avg_win, avg_loss)
            ELSE None
        raw ==
            IF s.position_size_method = "fixed_amount"
            THEN max_position_size_usd
            ELSE IF kelly_f # None
            THEN (account_balance * kelly_f) \div 10000
            ELSE (account_balance * position_size_fraction) \div 100
        size_usd == SizeLimits(raw)
        quantity ==
            IF Min(raw, max_position_size_usd) < min_position_size_usd THEN 0
            ELSE IF current_price > 0
            THEN (size_usd * lev * 1000) \div current_price
            ELSE 0
    IN  [ quantity |-> quantity, size_usd |-> size_usd, leverage |-> lev,
          method |-> s.position_size_method, kelly_fraction |-> kelly_f ]

\* calculate_position_size(...).size_usd for the fixed_fraction method, for
\* a balance and a size in units of 100 USD
fixed_fraction_size(account_balance) ==
    SizeLimits((account_balance * 100 * position_size_fraction) \div 100)
        \div 100

\* the RiskMetrics that _decision_cycle builds
CycleMetrics ==
    [ open_positions   |-> open_trades,
      total_exposure   |-> 0,
      available_margin |-> AccountEquity ]

MaxErrors == 2

\* a _decision_cycle call is entered / has returned
EnterCycle(n) == n + 1
LeaveCycle_stuck(n) == n
LeaveCycle(n) == n - 1

\* where _main_loop goes on after _decision_cycle has caught and logged an
\* error: the sleep that ends the heartbeat
AfterCycleError_propagates == "done"
AfterCycleError == "sleep"

\* _execute_trade: the order record, then the trade record
LogExecuted_swapped(ev, ok_order, ok_trade) ==
    SinkAppend(SinkAppend(ev, "trade", ok_trade), "order", ok_order)
LogExecuted(ev, ok_order, ok_trade) ==
    SinkAppend(SinkAppend(ev, "order", ok_order), "trade", ok_trade)

\* start(): the order in which the try block initializes the collaborators
InitOrder == <<"market_data", "data_logger", "binance_client", "alerter">>

\* what initialize() leaves open: the market data feed an aiohttp session,
\* the data logger its database connection, the exchange client an aiohttp
\* session unless dry_run is set
Holds(c, client) ==
    \/ c \in {"market_data", "data_logger"}
    \/ c = "binance_client" /\ ~client.dry_run

\* the position of a collaborator in InitOrder, past the end for "none"
InitIndex(c) ==
    IF \E i \in DOMAIN InitOrder : InitOrder[i] = c
    THEN CHOOSE i \in DOMAIN InitOrder : InitOrder[i] = c
    ELSE Len(InitOrder) + 1

\* DataLogger.log_system_event: the INSERT succeeds once initialize() has
\* connected and created the tables; before that the exception is caught
\* and the event is dropped
log_system_event(lc, event) ==
    [lc EXCEPT !.written =
        Append(@, [ event  |-> event,
                    stored |-> "data_logger" \in
                                  {lc.initialized[i] : i \in DOMAIN lc.initialized},
                    before |-> lc.initialized ])]

\* the try block of start(): the collaborators before `failed` are
\* initialized; `failed` may have opened its resource before it raised
initialize_components(lc, client, failed, partial) ==
    LET done == SubSeq(InitOrder, 1, InitIndex(failed) - 1)
        held == {done[i] : i \in DOMAIN done} \cup
                (IF failed # "none" /\ partial THEN {failed} ELSE {})
    IN  [lc EXCEPT !.initialized = done,
                   !.opened = {c \in held : Holds(c, client)}]

\* BinanceClient.close as the class defines it last: it logs and returns
BinanceClient_close(opened) == opened

\* shutdown(): market_data.close(), data_logger.close(),
\* binance_client.close()
close_components(lc) ==
    [lc EXCEPT !.opened =
        BinanceClient_close(@ \ {"market_data", "data_logger"})]

\* start(): the collaborators initialized, is_running set, the tasks created
Start ==
    /\ main_loop = "constructed"
    /\ lifecycle' = initialize_components(
                        log_system_event(lifecycle, "STARTUP"), bc, "none", FALSE)
    /\ ws' = ws
    /\ is_running' = TRUE
    /\ main_loop' = "top"
    /\ health_loop' = "running"
    /\ ws_server' = IF ws_server = "disabled" THEN "disabled" ELSE "created"
    /\ NoReturn
    /\ UNCHANGED <<now, rm, loss_run, open_trades, shutdown_called, clientVars, limiterVars, cycleVars, callVars>>

\* _main_loop: the while test and the circuit-breaker test of one heartbeat
Heartbeat ==
    /\ main_loop = "top"
    /\ main_loop' = IF ~is_running THEN "done"
                    ELSE IF circuit_breaker_active(rm) THEN "sleep"
                    ELSE "cycle"
    /\ IF main_loop' = "cycle"
       THEN /\ cycle' = NoCycle
            /\ events' = <<>>
            /\ cycles_in_flight' = EnterCycle(cycles_in_flight)
       ELSE UNCHANGED <<cycle, events, cycles_in_flight>>
    /\ NoReturn
    /\ UNCHANGED <<now, rm, loss_run, is_running, open_trades, shutdown_called, clientVars, limiterVars, taskVars, errors_captured, callVars, serverVars>>

\* _decision_cycle ending before risk validation: no model responded, or a
\* step raised and the error was logged at the cycle boundary.  (The event
\* sink is not followed by this action and the next.)
CycleEndsEarly ==
    /\ main_loop = "cycle"
    /\ main_loop' = "sleep"
    /\ cycles_in_flight' = LeaveCycle(cycles_in_flight)
    /\ NoReturn
    /\ UNCHANGED <<now, rm, loss_run, is_running, open_trades, shutdown_called, clientVars, limiterVars, taskVars, cycle, events, errors_captured, callVars, serverVars>>

\* _decision_cycle from the fused decision on: sizing, validate_trade and,
\* when approved with a long or short decision, _execute_trade, in which
\* place_order returns an OrderState (placed) or None
CycleValidates ==
    /\ main_loop = "cycle"
    /\ \E action \in Actions, placed \in BOOLEAN :
         LET size == fixed_fraction_size(AccountEquity)
             r    == validate_trade(rm, CycleMetrics, size, now)
         IN  /\ rm' = r.state
             /\ verdict' = [valid |-> r.valid, reason |-> r.reason]
             /\ call' = [metrics |-> CycleMetrics, size |-> size]
             /\ open_trades' =
                    IF r.valid /\ action \in {"long", "short"}
                       /\ open_trades < max_open_positions
                       /\ size > 0 /\ placed
                    THEN open_trades + 1
                    ELSE open_trades
    /\ main_loop' = "sleep"
    /\ cycles_in_flight' = LeaveCycle(cycles_in_flight)
    /\ UNCHANGED <<now, loss_run, is_running, shutdown_called, clientVars, limiterVars, taskVars, cycle, events, errors_captured, callVars, serverVars>>

\* the except clause of _decision_cycle: the error is logged as a system
\* event and the call returns
CaptureError(ok) ==
    /\ events' = SinkAppend(events, "system_event", ok)
    /\ errors_captured' = Min(errors_captured + 1, MaxErrors)
    /\ cycles_in_flight' = LeaveCycle(cycles_in_flight)
    /\ main_loop' = AfterCycleError
    /\ UNCHANGED cycle

\* _decision_cycle, step 1: get_snapshot and log_snapshot
CollectSnapshot ==
    /\ main_loop = "cycle"
    /\ \E raised \in BOOLEAN, ok \in BOOLEAN :
         IF raised
         THEN CaptureError(ok)
         ELSE /\ events' = SinkAppend(events, "snapshot", ok)
              /\ cycle' = [cycle EXCEPT !.sink_failed = @ \/ ~ok]
              /\ main_loop' = "models"
              /\ UNCHANGED <<cycles_in_flight, errors_captured>>
    /\ NoReturn
    /\ UNCHANGED <<now, rm, loss_run, is_running, open_trades, shutdown_called, clientVars, limiterVars, taskVars, callVars, serverVars>>

\* _decision_cycle, step 2: get_model_predictions, the return when no model
\* responded, and log_model_prediction for every response
QueryModels ==
    /\ main_loop = "models"
    /\ \E responses \in Predictions, raised \in BOOLEAN, ok \in BOOLEAN :
         LET model_responses == get_model_predictions(responses)
         IN  IF raised
             THEN CaptureError(ok)
             ELSE IF model_responses = <<>>
             THEN /\ cycle' = [cycle EXCEPT !.responding = 0]
                  /\ main_loop' = "sleep"
                  /\ cycles_in_flight' = LeaveCycle(cycles_in_flight)
                  /\ UNCHANGED <<events, errors_captured>>
             ELSE \E appended \in 0..Len(model_responses) :
                  /\ events' = SinkAppendN(events, "prediction", appended)
                  /\ cycle' = [cycle EXCEPT
                                 !.responding = Len(model_responses),
                                 !.predictions = model_responses,
                                 !.sink_failed =
                                     @ \/ appended < Len(model_responses)]
                  /\ main_loop' = "fusion"
                  /\ UNCHANGED <<cycles_in_flight, errors_captured>>
    /\ NoReturn
    /\ UNCHANGED <<now, rm, loss_run, is_running, open_trades, shutdown_called, clientVars, limiterVars, taskVars, callVars, serverVars>>

\* the trade executed whatever the RiskManager answered
ShouldExecute_unchecked(approved, action) == action \in {"long", "short"}

\* if risk_check['approved'] and decision['action'] in ['long', 'short']
ShouldExecute(approved, action) ==
    approved /\ action \in {"long", "short"}

\* a trade tracked under two keys
TrackOpenTrade_twice(n) == n + 2

\* self.open_trades[trade_id] = {...}
TrackOpenTrade(n) == n + 1

\* _decision_cycle, steps 3 and 4: aggregate, calculate_position_size,
\* validate_trade and log_ensemble_decision; the cycle returns here unless
\* the trade is approved and the decision is long or short
Decide ==
    /\ main_loop = "fusion"
    /\ \E raised \in BOOLEAN, ok \in BOOLEAN :
         IF raised
         THEN /\ CaptureError(ok)
              /\ NoReturn
              /\ UNCHANGED rm
         ELSE LET decision == aggregate(RespondedOnce, AsPredictions(cycle.predictions))
                  size     == fixed_fraction_size(AccountEquity)
                  r        == validate_trade(rm, CycleMetrics, size, now)
                  execute  == ShouldExecute(r.valid, decision.action)
              IN  /\ rm' = r.state
                  /\ verdict' = [valid |-> r.valid, reason |-> r.reason]
                  /\ call' = [metrics |-> CycleMetrics, size |-> size]
                  /\ events' = SinkAppend(events, "decision", ok)
                  /\ cycle' = [cycle EXCEPT
                                 !.action = decision.action,
                                 !.confidence = decision.confidence,
                                 !.reason = decision.reason,
                                 !.approved = r.valid,
                                 !.sink_failed = @ \/ ~ok]
                  /\ main_loop' = IF execute THEN "execute" ELSE "sleep"
                  /\ cycles_in_flight' = IF execute THEN cycles_in_flight
                                         ELSE LeaveCycle(cycles_in_flight)
                  /\ UNCHANGED errors_captured
    /\ UNCHANGED <<now, loss_run, is_running, open_trades, shutdown_called, clientVars, limiterVars, taskVars, callVars, serverVars>>

\* _decision_cycle, step 5: _execute_trade.  place_order raises, returns
\* None or returns an OrderState (placed); after the order and the trade
\* are logged and the trade is tracked, the call of the RiskManager's
\* record_trade_entry, which does not exist, raises; _execute_trade logs
\* what is raised as a system event and the cycle returns
ExecuteTrade ==
    /\ main_loop = "execute"
    /\ \E placed \in BOOLEAN, raised \in BOOLEAN,
          ok_order \in BOOLEAN, ok_trade \in BOOLEAN, ok \in BOOLEAN :
         LET size == fixed_fraction_size(AccountEquity)
         IN  IF open_trades >= max_open_positions \/ size <= 0
             THEN UNCHANGED <<events, cycle, open_trades, errors_captured>>
             ELSE IF raised
             THEN /\ events' = SinkAppend(events, "system_event", ok)
                  /\ errors_captured' = Min(errors_captured + 1, MaxErrors)
                  /\ UNCHANGED <<cycle, open_trades>>
             ELSE IF ~placed
             THEN UNCHANGED <<events, cycle, open_trades, errors_captured>>
             ELSE /\ events' = SinkAppend(LogExecuted(events, ok_order, ok_trade),
                                          "system_event", ok)
                  /\ cycle' = [cycle EXCEPT
                                 !.placed = TRUE,
                                 !.sink_failed = @ \/ ~ok_order \/ ~ok_trade]
                  /\ open_trades' = TrackOpenTrade(open_trades)
                  /\ errors_captured' = Min(errors_captured + 1, MaxErrors)
    /\ main_loop' = "sleep"
    /\ cycles_in_flight' = LeaveCycle(cycles_in_flight)
    /\ NoReturn
    /\ UNCHANGED <<now, rm, loss_run, is_running, shutdown_called, clientVars, limiterVars, taskVars, callVars, serverVars>>

\* asyncio.sleep(heartbeat_interval) returns
Wake ==
    /\ main_loop = "sleep"
    /\ main_loop' = "top"
    /\ NoReturn
    /\ UNCHANGED <<now, rm, loss_run, is_running, open_trades, shutdown_called, clientVars, limiterVars, taskVars, cycleVars, callVars, serverVars>>

\* _health_check_loop: one pass of the while loop; the pass made while
\* is_running holds changes nothing of the coordinator's and sleeps
HealthCheckLoop ==
    /\ health_loop = "running"
    /\ health_loop' = IF is_running THEN "running" ELSE "done"
    /\ NoReturn
    /\ UNCHANGED <<now, rm, loss_run, coordVars, clientVars, limiterVars, ws_server, cycleVars, callVars, serverVars>>

\* _websocket_server: websockets.serve raises and the task returns, or the
\* server is up and the task awaits a future that nothing ever resolves
WebsocketServer ==
    /\ ws_server = "created"
    /\ \E serve_raised \in BOOLEAN :
         ws_server' = IF serve_raised THEN "done" ELSE "serving"
    /\ NoReturn
    /\ UNCHANGED <<now, rm, loss_run, coordVars, clientVars, limiterVars, health_loop, cycleVars, callVars, serverVars>>

\* signal_handler: SIGINT or SIGTERM
SignalStop ==
    /\ is_running
    /\ is_running' = FALSE
    /\ NoReturn
    /\ UNCHANGED <<now, rm, loss_run, main_loop, open_trades, shutdown_called, clientVars, limiterVars, taskVars, cycleVars, callVars, serverVars>>

\* every task that start() gathered has returned
TasksEnded ==
    /\ main_loop = "done"
    /\ health_loop = "done"
    /\ ws_server \in {"disabled", "done"}

\* start(): asyncio.gather has returned, shutdown() runs
Shutdown ==
    /\ TasksEnded
    /\ ~shutdown_called
    /\ shutdown_called' = TRUE
    /\ is_running' = FALSE
    /\ NoReturn
    /\ UNCHANGED <<now, rm, loss_run, main_loop, open_trades, clientVars, limiterVars, taskVars, cycleVars, callVars>>
    /\ lifecycle' = close_components(log_system_event(lifecycle, "SHUTDOWN"))
    /\ ws' = ws

\* the heartbeat task
MainLoop == Heartbeat \/ CycleEndsEarly \/ CycleValidates \/ Wake

NextCoord ==
    \/ Start
    \/ Heartbeat
    \/ CycleEndsEarly
    \/ CycleValidates
    \/ Wake
    \/ HealthCheckLoop
    \/ SignalStop
    \/ Shutdown
    \/ Tick
    \/ RecordTrade
    \/ CloseTrade
    \/ UpdateInitialEquity

SpecCoord == InitRisk /\ [][NextCoord]_vars

\* The event loop runs a task that can run; the clock advances.
FairSpecCoord ==
    /\ InitRisk
    /\ [][NextCoord]_vars
    /\ WF_vars(MainLoop)
    /\ WF_vars(Tick)

(***************************************************************************)
(* The coordinator with the decision cycle followed step by step and the   *)
(* dashboard WebSocket server enabled or not by the configuration.         *)
(***************************************************************************)
InitCycle ==
    /\ now = StartTime
    /\ rm = RiskManagerInit(StartTime)
    /\ verdict = NoVerdict
    /\ call = NoCall
    /\ loss_run = 0
    /\ is_running = FALSE
    /\ main_loop = "constructed"
    /\ open_trades = 0
    /\ shutdown_called = FALSE
    /\ bc = BinanceClientInit(TRUE)
    /\ orders_db = OrdersDbInit(FALSE)
    /\ ret = NoRet
    /\ rl = RateLimiterInit(0)
    /\ rl_now = 0
    /\ rl_waiting = 0
    /\ rl_returned = 0
    /\ health_loop = "constructed"
    /\ ws_server \in {"disabled", "constructed"}
    /\ cycle = NoCycle
    /\ events = <<>>
    /\ cycles_in_flight = 0
    /\ errors_captured = 0
    /\ model_performance = EnsembleAggregatorInit
    /\ engine = EnsembleEngineInit
    /\ fn_call = NoFnCall
    /\ fn_result = NoFnResult
    /\ lifecycle = LifecycleInit
    /\ ws = DashboardInit

\* the heartbeat task, step by step
MainLoopSteps ==
    Heartbeat \/ CollectSnapshot \/ QueryModels \/ Decide \/ ExecuteTrade \/ Wake

NextCycle ==
    \/ Start
    \/ Heartbeat
    \/ CollectSnapshot
    \/ QueryModels
    \/ Decide
    \/ ExecuteTrade
    \/ Wake
    \/ HealthCheckLoop
    \/ WebsocketServer
    \/ SignalStop
    \/ Shutdown

SpecCycle == InitCycle /\ [][NextCycle]_vars

\* The event loop runs every task that can run, and start() goes on once
\* the gathered tasks have returned.
FairSpecCycle ==
    /\ InitCycle
    /\ [][NextCycle]_vars
    /\ WF_vars(MainLoopSteps)
    /\ WF_vars(HealthCheckLoop)
    /\ WF_vars(WebsocketServer)
    /\ WF_vars(Shutdown)

(***************************************************************************)
(* The decision cycle step by step over a RiskManager whose trades are     *)
(* recorded and closed, at any point of the cycle, by the party that       *)
(* follows them.                                                           *)
(***************************************************************************)
NextCycleRisk ==
    \/ Start
    \/ Heartbeat
    \/ CollectSnapshot
    \/ QueryModels
    \/ Decide
    \/ ExecuteTrade
    \/ Wake
    \/ RecordTrade
    \/ CloseTrade

\* the coordinator constructed, the account equity recorded with the
\* RiskManager or not
InitCycleRisk ==
    /\ now = StartTime
    /\ rm \in {RiskManagerInit(StartTime),
               update_initial_equity(RiskManagerInit(StartTime), AccountEquity)}
    /\ verdict = NoVerdict
    /\ call = NoCall
    /\ loss_run = 0
    /\ is_running = FALSE
    /\ main_loop = "constructed"
    /\ open_trades = 0
    /\ shutdown_called = FALSE
    /\ bc = BinanceClientInit(TRUE)
    /\ orders_db = OrdersDbInit(FALSE)
    /\ ret = NoRet
    /\ rl = RateLimiterInit(0)
    /\ rl_now = 0
    /\ rl_waiting = 0
    /\ rl_returned = 0
    /\ health_loop = "constructed"
    /\ ws_server = "disabled"
    /\ cycle = NoCycle
    /\ events = <<>>
    /\ cycles_in_flight = 0
    /\ errors_captured = 0
    /\ model_performance = EnsembleAggregatorInit
    /\ engine = EnsembleEngineInit
    /\ fn_call = NoFnCall
    /\ fn_result = NoFnResult
    /\ lifecycle = LifecycleInit
    /\ ws = DashboardInit

SpecCycleRisk == InitCycleRisk /\ [][NextCycleRisk]_vars

(***************************************************************************)
(* main() and start() when a collaborator fails to initialize.  With       *)
(* dry_run set BinanceClient.initialize returns at once, so the            *)
(* collaborators that can raise are the market data feed, the data logger  *)
(* and the Telegram alerter.                                               *)
(***************************************************************************)
Collaborators(client) ==
    {"market_data", "data_logger", "alerter"} \cup
    (IF client.dry_run THEN {} ELSE {"binance_client"})

\* the exit status of the interpreter once asyncio.run(main()) has returned
EXIT_RETURNED == 0
\* the exit status of the interpreter when asyncio.run(main()) raised
EXIT_RAISED == 1

\* log_system_event: every Exception of the INSERT is caught and logged
log_system_event_raises(db_usable) == FALSE

\* start() when `failed` raises in initialize: the except clause logs the
\* INIT_ERROR event and returns; main() and asyncio.run(main()) return
StartFails ==
    /\ main_loop = "constructed"
    /\ \E failed \in Collaborators(bc), db_usable \in BOOLEAN, partial \in BOOLEAN :
          /\ fn_call' = [fn |-> "main", failed |-> failed]
          /\ lifecycle' =
                log_system_event(
                    initialize_components(
                        log_system_event(lifecycle, "STARTUP"), bc, failed, partial),
                    "INIT_ERROR")
          /\ fn_result' = [fn |-> "main",
                           exit_code |-> IF log_system_event_raises(db_usable)
                                         THEN EXIT_RAISED ELSE EXIT_RETURNED]
    /\ main_loop' = "never_created"
    /\ NoReturn
    /\ UNCHANGED <<now, rm, loss_run, is_running, open_trades, shutdown_called, clientVars, limiterVars, taskVars, cycleVars, model_performance, engine>>
    /\ ws' = ws

NextStartup ==
    \/ StartFails
    \/ Start
    \/ Heartbeat
    \/ CollectSnapshot
    \/ QueryModels
    \/ Decide
    \/ ExecuteTrade
    \/ Wake
    \/ HealthCheckLoop
    \/ WebsocketServer
    \/ SignalStop
    \/ Shutdown

SpecStartup == InitCycle /\ [][NextStartup]_vars

\* InitCycle with the exchange client in dry-run or in live mode
InitLifecycle ==
    /\ now = StartTime
    /\ rm = RiskManagerInit(StartTime)
    /\ verdict = NoVerdict
    /\ call = NoCall
    /\ loss_run = 0
    /\ is_running = FALSE
    /\ main_loop = "constructed"
    /\ open_trades = 0
    /\ shutdown_called = FALSE
    /\ \E dry_run \in BOOLEAN : bc = BinanceClientInit(dry_run)
    /\ orders_db = OrdersDbInit(FALSE)
    /\ ret = NoRet
    /\ rl = RateLimiterInit(0)
    /\ rl_now = 0
    /\ rl_waiting = 0
    /\ rl_returned = 0
    /\ health_loop = "constructed"
    /\ ws_server \in {"disabled", "constructed"}
    /\ cycle = NoCycle
    /\ events = <<>>
    /\ cycles_in_flight = 0
    /\ errors_captured = 0
    /\ model_performance = EnsembleAggregatorInit
    /\ engine = EnsembleEngineInit
    /\ fn_call = NoFnCall
    /\ fn_result = NoFnResult
    /\ lifecycle = LifecycleInit
    /\ ws = DashboardInit

SpecLifecycle == InitLifecycle /\ [][NextStartup]_vars

(***************************************************************************)
(* The BinanceClient driven through its public operations.  The client is  *)
(* configured for dry run or for live trading, and finds the database of   *)
(* an earlier run or none.                                                 *)
(***************************************************************************)
OrderQuantities == {12, 26}
OrderPrices == {None, 48}
StopLosses == {None, 49}
\* order_type and price of the live orders placed
LiveOrders == { <<MARKET, None>>, <<LIMIT, None>>, <<LIMIT, 48>> }
TakeProfits == {None, 52}

InitOrders ==
    /\ now = StartTime
    /\ rm = RiskManagerInit(StartTime)
    /\ verdict = NoVerdict
    /\ call = NoCall
    /\ loss_run = 0
    /\ is_running = FALSE
    /\ main_loop = "constructed"
    /\ open_trades = 0
    /\ shutdown_called = FALSE
    /\ \E dry \in BOOLEAN, table \in BOOLEAN :
          /\ bc = BinanceClientInit(dry)
          /\ orders_db = OrdersDbInit(table)
    /\ ret = NoRet
    /\ rl = RateLimiterInit(0)
    /\ rl_now = 0
    /\ rl_waiting = 0
    /\ rl_returned = 0
    /\ health_loop = "constructed"
    /\ ws_server = "disabled"
    /\ cycle = NoCycle
    /\ events = <<>>
    /\ cycles_in_flight = 0
    /\ errors_captured = 0
    /\ model_performance = EnsembleAggregatorInit
    /\ engine = EnsembleEngineInit
    /\ fn_call = NoFnCall
    /\ fn_result = NoFnResult
    /\ lifecycle = LifecycleInit
    /\ ws = DashboardInit

Initialize ==
    /\ ~bc.ready
    /\ \E ok \in BOOLEAN :
          LET r == initialize(bc, orders_db, ok) IN
          /\ bc' = r.bc
          /\ orders_db' = r.db
          /\ ret' = [NoRet EXCEPT !.op = "initialize",
                        !.outcome = IF r.bc.ready THEN "None" ELSE "raised"]
    /\ fn_call' = NoFnCall
    /\ fn_result' = NoFnResult
    /\ UNCHANGED <<riskVars, coordVars, limiterVars, taskVars, cycleVars, model_performance, engine, serverVars>>

PlaceOrderDryRun ==
    /\ bc.ready
    /\ bc.dry_run
    /\ \E quantity \in OrderQuantities, price \in OrderPrices,
          order_type \in {MARKET, LIMIT} :
          LET r == place_order_dry_run(orders_db, quantity, price, now) IN
          /\ orders_db' = r.db
          /\ ret' = [ op |-> "place_order", outcome |-> r.outcome,
                      value |-> r.value, ack |-> ApiError,
                      quantity |-> quantity, price |-> price, requests |-> 0,
                      order_type |-> order_type ]
    /\ UNCHANGED <<riskVars, coordVars, bc, limiterVars, taskVars, cycleVars, callVars, serverVars>>

PlaceOrderLive ==
    /\ bc.ready
    /\ ~bc.dry_run
    /\ \E quantity \in OrderQuantities, order \in LiveOrders :
          IF PriceMissing(order[1], order[2])
          THEN \* ValueError inside the try, before the request
               /\ orders_db' = orders_db
               /\ ret' = [ op |-> "place_order", outcome |-> "None",
                           value |-> NoOrder, ack |-> ApiError,
                           quantity |-> quantity, price |-> order[2],
                           requests |-> 0, order_type |-> order[1] ]
          ELSE
          \E reply \in OrderAcks \cup {ApiError},
             stop_loss \in StopLosses, take_profit \in TakeProfits :
          LET r == place_order_live(orders_db, reply, stop_loss, take_profit) IN
          \* the exchange gives a new order an id it has not used before
          /\ IF reply.error THEN TRUE
             ELSE _load_order_state(orders_db, reply.orderId) = NoOrder
          /\ orders_db' = r.db
          /\ ret' = [ op |-> "place_order", outcome |-> r.outcome,
                      value |-> r.value, ack |-> reply,
                      quantity |-> quantity, price |-> order[2],
                      requests |-> 1, order_type |-> order[1] ]
    /\ UNCHANGED <<riskVars, coordVars, bc, limiterVars, taskVars, cycleVars, callVars, serverVars>>

MonitorOrders ==
    /\ bc.ready
    /\ \E failed \in BOOLEAN, data \in OpenOrdersReplies :
          orders_db' = monitor_orders(bc, orders_db, failed, data)
    /\ ret' = [NoRet EXCEPT !.op = "monitor_orders", !.outcome = "list"]
    /\ fn_call' = NoFnCall
    /\ fn_result' = NoFnResult
    /\ UNCHANGED <<riskVars, coordVars, bc, limiterVars, taskVars, cycleVars, model_performance, engine, serverVars>>

GetOrderStatus ==
    /\ bc.ready
    /\ \E nargs \in {1, 2} :
          ret' = [NoRet EXCEPT !.op = "get_order_status",
                               !.outcome = get_order_status(nargs)]
    /\ fn_call' = NoFnCall
    /\ fn_result' = NoFnResult
    /\ UNCHANGED <<riskVars, coordVars, bc, orders_db, limiterVars, taskVars, cycleVars, model_performance, engine, serverVars>>

NextOrders ==
    \/ Tick
    \/ Initialize
    \/ PlaceOrderDryRun
    \/ PlaceOrderLive
    \/ MonitorOrders
    \/ GetOrderStatus

SpecOrders == InitOrders /\ [][NextOrders]_vars

(***************************************************************************)
(* RiskManager.calculate_position_size on its own, under each sizing       *)
(* method.                                                                 *)
(***************************************************************************)
CurrentPrices == {0, 50000}
AccountBalances == {0, 50, 10000, 20000}
Leverages == {1, 10}
WinRates == {None, 20, 60}
AverageWins == {None, 5}
AverageLosses == {None, 0, 2}

InitSizing ==
    /\ now = StartTime
    /\ \E method \in PositionSizeMethods :
          rm = [RiskManagerInit(StartTime) EXCEPT !.position_size_method = method]
    /\ verdict = NoVerdict
    /\ call = NoCall
    /\ loss_run = 0
    /\ is_running = FALSE
    /\ main_loop = "constructed"
    /\ open_trades = 0
    /\ shutdown_called = FALSE
    /\ bc = BinanceClientInit(TRUE)
    /\ orders_db = OrdersDbInit(FALSE)
    /\ ret = NoRet
    /\ rl = RateLimiterInit(0)
    /\ rl_now = 0
    /\ rl_waiting = 0
    /\ rl_returned = 0
    /\ health_loop = "constructed"
    /\ ws_server = "disabled"
    /\ cycle = NoCycle
    /\ events = <<>>
    /\ cycles_in_flight = 0
    /\ errors_captured = 0
    /\ model_performance = EnsembleAggregatorInit
    /\ engine = EnsembleEngineInit
    /\ fn_call = NoFnCall
    /\ fn_result = NoFnResult
    /\ lifecycle = LifecycleInit
    /\ ws = DashboardInit

CalculatePositionSize ==
    /\ \E current_price \in CurrentPrices, account_balance \in AccountBalances,
          leverage \in Leverages, win_rate \in WinRates,
          avg_win \in AverageWins, avg_loss \in AverageLosses :
          LET r == calculate_position_size(rm, current_price, account_balance,
                                           leverage, win_rate, avg_win, avg_loss)
          IN  /\ fn_call' = [fn |-> "calculate_position_size",
                             current_price |-> current_price,
                             account_balance |-> account_balance,
                             leverage |-> leverage, win_rate |-> win_rate,
                             avg_win |-> avg_win, avg_loss |-> avg_loss]
              /\ fn_result' = [fn |-> "calculate_position_size",
                               quantity |-> r.quantity, size_usd |-> r.size_usd,
                               leverage |-> r.leverage, method |-> r.method,
                               kelly_fraction |-> r.kelly_fraction]
    /\ UNCHANGED <<riskVars, coordVars, clientVars, limiterVars, taskVars, cycleVars, model_performance, engine, serverVars>>

NextSizing == CalculatePositionSize

SpecSizing == InitSizing /\ [][NextSizing]_vars

(***************************************************************************)
(* The order store on its own: OrderStates with every field of the         *)
(* dataclass are saved and loaded, and the open orders are refreshed.      *)
(***************************************************************************)
\* an OrderState with all its fields
FullOrderState(order_id, side, type, price, status, children) ==
    [ order_id   |-> order_id,
      symbol     |-> "BTCUSDT",
      side       |-> side,
      type       |-> type,
      quantity   |-> 20,
      price      |-> price,
      status     |-> status,
      filled_qty |-> IF status = FILLED THEN 20 ELSE 0,
      avg_price  |-> IF status = FILLED THEN 50 ELSE 0,
      timestamp  |-> StartTime,
      stop_loss_order_id   |-> children[1],
      take_profit_order_id |-> children[2] ]

\* the ids of the stop-loss and take-profit orders of a parent
ChildIds == { <<None, None>>, <<7, 8>> }

\* a filled market order to buy, a working limit order to sell
OrderKinds == { <<"BUY", MARKET, FILLED>>, <<"SELL", LIMIT, STATUS_NEW>> }

SavedOrders ==
    { FullOrderState(id, kind[1], kind[2], price, kind[3], children) :
        id \in ExchangeOrderIds, kind \in OrderKinds,
        price \in OrderPrices, children \in ChildIds }

\* _save_order_state(order)
SaveOrderState ==
    /\ \E order \in SavedOrders :
          LET saved == _save_order_state(orders_db, order) IN
          /\ orders_db' = saved.db
          /\ fn_call' = [fn |-> "_save_order_state", order |-> order]
          /\ fn_result' = [fn |-> "_save_order_state",
                           outcome |-> IF saved.ok THEN "None" ELSE "raised"]
    /\ ret' = NoRet
    /\ UNCHANGED <<riskVars, coordVars, bc, limiterVars, taskVars, cycleVars, model_performance, engine, serverVars>>

\* _load_order_state(order_id): the SELECT raises when the table does not
\* exist
LoadOrderState ==
    /\ \E order_id \in OrderIds :
          /\ fn_call' = [fn |-> "_load_order_state", order_id |-> order_id]
          /\ fn_result' =
                IF ~orders_db.table
                THEN [fn |-> "_load_order_state", outcome |-> "raised",
                      value |-> NoOrder]
                ELSE LET order == _load_order_state(orders_db, order_id)
                     IN  [fn |-> "_load_order_state",
                          outcome |-> IF order = NoOrder THEN "None" ELSE "OrderState",
                          value |-> order]
    /\ ret' = NoRet
    /\ UNCHANGED <<riskVars, coordVars, bc, orders_db, limiterVars, taskVars, cycleVars, model_performance, engine, serverVars>>

NextStore ==
    \/ Initialize
    \/ SaveOrderState
    \/ LoadOrderState
    \/ MonitorOrders
    \/ GetOrderStatus

SpecStore == InitOrders /\ [][NextStore]_vars

(***************************************************************************)
(* Tasks calling RateLimiter.acquire().  asyncio.Lock hands the lock to    *)
(* its waiters in arrival order, and a caller that finds waiters queues    *)
(* behind them; a task that can run does so before the clock moves on.     *)
(***************************************************************************)
Issued == rl_returned + rl_waiting + (IF rl.locked THEN 1 ELSE 0)

AcquireCall ==
    /\ Issued < MaxAcquires
    /\ IF ~rl.locked /\ rl_waiting = 0
       THEN /\ rl' = AcquireBody(rl, rl_now)
            /\ rl_returned' = IF rl'.locked THEN rl_returned ELSE rl_returned + 1
            /\ UNCHANGED rl_waiting
       ELSE /\ rl_waiting' = rl_waiting + 1
            /\ UNCHANGED <<rl, rl_returned>>
    /\ UNCHANGED <<rl_now, riskVars, coordVars, clientVars, taskVars, cycleVars, callVars, serverVars>>

LockHandover ==
    /\ ~rl.locked
    /\ rl_waiting > 0
    /\ rl' = AcquireBody(rl, rl_now)
    /\ rl_waiting' = rl_waiting - 1
    /\ rl_returned' = IF rl'.locked THEN rl_returned ELSE rl_returned + 1
    /\ UNCHANGED <<rl_now, riskVars, coordVars, clientVars, taskVars, cycleVars, callVars, serverVars>>

SleepDone ==
    /\ rl.locked
    /\ rl_now >= rl.wake_at
    /\ rl' = AfterSleep(rl)
    /\ rl_returned' = rl_returned + 1
    /\ UNCHANGED <<rl_now, rl_waiting, riskVars, coordVars, clientVars, taskVars, cycleVars, callVars, serverVars>>

Second ==
    /\ rl_now < MaxSeconds
    /\ ~(rl.locked /\ rl_now >= rl.wake_at)
    /\ ~(~rl.locked /\ rl_waiting > 0)
    /\ rl_now' = rl_now + 1
    /\ UNCHANGED <<rl, rl_waiting, rl_returned, riskVars, coordVars, clientVars, taskVars, cycleVars, callVars, serverVars>>

NextRate ==
    \/ AcquireCall
    \/ LockHandover
    \/ SleepDone
    \/ Second

SpecRate == InitRisk /\ [][NextRate]_vars

(***************************************************************************)
(* BinanceClient._request under its @retry decorator: every attempt takes  *)
(* a token of the rate limiter, sends the request and reads the answer.    *)
(***************************************************************************)
stop_after_attempt == 3

\* what one attempt meets: no connection, no answer in time, or an HTTP
\* response with a status and a body that is JSON or not
NoAnswer == [kind |-> "none", status |-> 0, json |-> FALSE]
HttpAnswers ==
    { [kind |-> "network_error", status |-> 0, json |-> FALSE],
      [kind |-> "timeout", status |-> 0, json |-> FALSE] }
    \cup { [kind |-> "response", status |-> st, json |-> js] :
             st \in {200, 502}, js \in BOOLEAN }

\* the classes of the exceptions an attempt raises, with their base classes
ExceptionBases ==
    [ ClientConnectorError |-> {"ClientConnectorError", "ClientOSError",
                                "ClientConnectionError", "ClientError", "Exception"},
      ContentTypeError     |-> {"ContentTypeError", "ClientResponseError",
                                "ClientError", "Exception"},
      TimeoutError         |-> {"TimeoutError", "Exception"},
      Exception            |-> {"Exception"} ]

\* the exception the body of _request raises on this answer, or "none":
\* session.request fails, response.json() refuses a body that is not JSON,
\* a status other than 200 raises Exception
RequestRaises(answer) ==
    IF answer.kind = "network_error" THEN "ClientConnectorError"
    ELSE IF answer.kind = "timeout" THEN "TimeoutError"
    ELSE IF ~answer.json THEN "ContentTypeError"
    ELSE IF answer.status # 200 THEN "Exception"
    ELSE "none"

\* retry_if_exception_type((aiohttp.ClientError, asyncio.TimeoutError))
retry_if_exception_type(exc) ==
    ExceptionBases[exc] \cap {"ClientError", "TimeoutError"} # {}

\* how the attempt numbered n ends: the data, the exception raised to the
\* caller, RetryError once the attempts are used up, or "retry"
AttemptOutcome(n, answer) ==
    LET exc == RequestRaises(answer)
    IN  IF exc = "none" THEN "data"
        ELSE IF ~retry_if_exception_type(exc) THEN exc
        ELSE IF n >= stop_after_attempt THEN "RetryError"
        ELSE "retry"

RequestInProgress == fn_call.fn = "_request" /\ fn_result = NoFnResult

\* _request(method, endpoint, signed, **kwargs) is called
RequestCall ==
    /\ ~RequestInProgress
    /\ fn_call' = [fn |-> "_request", attempts |-> 0,
                   last |-> NoAnswer, phase |-> "acquire"]
    /\ fn_result' = NoFnResult
    /\ UNCHANGED <<riskVars, coordVars, clientVars, limiterVars, taskVars, cycleVars, model_performance, engine, serverVars>>

\* await self.rate_limiter.acquire(), up to its sleep
RequestAcquire ==
    /\ RequestInProgress
    /\ fn_call.phase = "acquire"
    /\ rl' = AcquireBody(rl, rl_now)
    /\ fn_call' = [fn_call EXCEPT !.phase = IF rl'.locked THEN "sleeping" ELSE "send"]
    /\ UNCHANGED <<rl_now, rl_waiting, rl_returned, fn_result, riskVars, coordVars, clientVars, taskVars, cycleVars, model_performance, engine, serverVars>>

\* the sleep of acquire() is over
RequestWakes ==
    /\ RequestInProgress
    /\ fn_call.phase = "sleeping"
    /\ rl_now >= rl.wake_at
    /\ rl' = AfterSleep(rl)
    /\ fn_call' = [fn_call EXCEPT !.phase = "send"]
    /\ UNCHANGED <<rl_now, rl_waiting, rl_returned, fn_result, riskVars, coordVars, clientVars, taskVars, cycleVars, model_performance, engine, serverVars>>

\* session.request(...), response.json(), the status test
RequestSend ==
    /\ RequestInProgress
    /\ fn_call.phase = "send"
    /\ \E answer \in HttpAnswers :
          LET n == fn_call.attempts + 1
              outcome == AttemptOutcome(n, answer)
          IN  /\ fn_call' = [fn_call EXCEPT !.attempts = n, !.last = answer,
                                            !.phase = IF outcome = "retry"
                                                      THEN "acquire" ELSE "done"]
              /\ fn_result' = IF outcome = "retry" THEN NoFnResult
                              ELSE [fn |-> "_request", outcome |-> outcome]
    /\ UNCHANGED <<riskVars, coordVars, clientVars, limiterVars, taskVars, cycleVars, model_performance, engine, serverVars>>

NextRequest ==
    \/ RequestCall
    \/ RequestAcquire
    \/ RequestWakes
    \/ RequestSend
    \/ Second

SpecRequest == InitRisk /\ [][NextRequest]_vars

(***************************************************************************)
(* The signing of _request.  A dict is a function from its keys to their   *)
(* values, every value a sequence of integers; `params` is the one dict    *)
(* object the caller passed, which every attempt of the call is handed     *)
(* again by the retry decorator.                                           *)
(***************************************************************************)
\* the keys a request carries, in the order sorted() gives them
SortedKeys == <<"side", "signature", "symbol", "timestamp">>

KeyIndex(k) == CHOOSE i \in DOMAIN SortedKeys : SortedKeys[i] = k

\* params={...} as the callers of _request(signed=...) build it
CallerParams ==
    { [k \in {"symbol"} |-> <<1>>],
      [k \in {"symbol", "side"} |-> IF k = "symbol" THEN <<1>> ELSE <<2>>] }

\* int(time.time() * 1000)
timestamp_ms(t) == <<t * 1000>>

\* '&'.join([f"{k}={v}" for k, v in sorted(params.items())])
query_string(params) ==
    LET keys == SelectSeq(SortedKeys, LAMBDA k : k \in DOMAIN params)
    IN  [i \in DOMAIN keys |-> <<keys[i], params[keys[i]]>>]

RECURSIVE Encoded(_)
\* the bytes of a query string: each pair as its key, the length of its
\* value and the value
Encoded(qs) ==
    IF qs = <<>> THEN <<>>
    ELSE <<KeyIndex(Head(qs)[1]), Len(Head(qs)[2])>> \o Head(qs)[2] \o Encoded(Tail(qs))

\* hmac.new(api_secret, query_string, sha256).hexdigest(): one digest for
\* each signed string under the one secret of the client
hmac_sha256(qs) == Encoded(qs)

\* the `if signed:` block of one attempt at time t on the dict params:
\* the dict after it and the string that was signed
SignParams(params, t) ==
    LET stamped == ("timestamp" :> timestamp_ms(t)) @@ params
        qs == query_string(stamped)
    IN  [params |-> ("signature" :> hmac_sha256(qs)) @@ stamped, signed_string |-> qs]

\* kwargs.get('params', {}) of an attempt: the caller's dict object as the
\* earlier attempts left it, or a new empty dict when none was passed
ParamsOfAttempt(c) == IF c.given THEN c.params ELSE <<>>

\* _request(method, endpoint, signed, params=...) is called
SignedRequestCall ==
    /\ ~RequestInProgress
    /\ \E signed \in BOOLEAN, given \in BOOLEAN, caller \in CallerParams :
          fn_call' = [fn |-> "_request", attempts |-> 0, last |-> NoAnswer,
                      phase |-> "acquire", signed |-> signed, given |-> given,
                      caller |-> IF given THEN caller ELSE <<>>,
                      params |-> IF given THEN caller ELSE <<>>,
                      timestamp |-> 0, signed_string |-> <<>>, sent |-> <<>>]
    /\ fn_result' = NoFnResult
    /\ UNCHANGED <<riskVars, coordVars, clientVars, limiterVars, taskVars, cycleVars, model_performance, engine, serverVars>>

\* the rest of one attempt after acquire(): the signing, session.request(...),
\* response.json(), the status test
SignedRequestSend ==
    /\ RequestInProgress
    /\ fn_call.phase = "send"
    /\ \E answer \in HttpAnswers :
          LET n == fn_call.attempts + 1
              outcome == AttemptOutcome(n, answer)
              before == ParamsOfAttempt(fn_call)
              signing == SignParams(before, rl_now)
              after == IF fn_call.signed THEN signing.params ELSE before
          IN  /\ fn_call' = [fn_call EXCEPT !.attempts = n, !.last = answer,
                                            !.phase = IF outcome = "retry"
                                                      THEN "acquire" ELSE "done",
                                            !.params = IF fn_call.given THEN after ELSE @,
                                            !.timestamp = IF fn_call.signed THEN rl_now ELSE @,
                                            !.signed_string = IF fn_call.signed
                                                              THEN signing.signed_string ELSE @,
                                            !.sent = after]
              /\ fn_result' = IF outcome = "retry" THEN NoFnResult
                              ELSE [fn |-> "_request", outcome |-> outcome]
    /\ UNCHANGED <<riskVars, coordVars, clientVars, limiterVars, taskVars, cycleVars, model_performance, engine, serverVars>>

\* the clock of the client when the RateLimiter is constructed
SignedStart == MaxSeconds - 7

InitSigned ==
    /\ now = StartTime
    /\ rm = RiskManagerInit(StartTime)
    /\ verdict = NoVerdict
    /\ call = NoCall
    /\ loss_run = 0
    /\ is_running = FALSE
    /\ main_loop = "constructed"
    /\ open_trades = 0
    /\ shutdown_called = FALSE
    /\ bc = BinanceClientInit(TRUE)
    /\ orders_db = OrdersDbInit(FALSE)
    /\ ret = NoRet
    /\ rl = RateLimiterInit(SignedStart)
    /\ rl_now = SignedStart
    /\ rl_waiting = 0
    /\ rl_returned = 0
    /\ health_loop = "constructed"
    /\ ws_server = "disabled"
    /\ cycle = NoCycle
    /\ events = <<>>
    /\ cycles_in_flight = 0
    /\ errors_captured = 0
    /\ model_performance = EnsembleAggregatorInit
    /\ engine = EnsembleEngineInit
    /\ fn_call = NoFnCall
    /\ fn_result = NoFnResult
    /\ lifecycle = LifecycleInit
    /\ ws = DashboardInit

NextSigned ==
    \/ SignedRequestCall
    \/ RequestAcquire
    \/ RequestWakes
    \/ SignedRequestSend
    \/ Second

SpecSigned == InitSigned /\ [][NextSigned]_vars

(***************************************************************************)
(* The dashboard: handle_client of each connection and _broadcast_update,  *)
(* whose loop over self.ws_clients awaits client.send between two steps of *)
(* the set's iterator.  `peers` are the connections still open at the      *)
(* other end; `stayed` of a broadcast are the clients connected since it   *)
(* started.                                                                *)
(***************************************************************************)
MaxBroadcasts == 2

\* the set iterator's next(): RuntimeError when the set changed size since
\* the iterator was made
SetChangedSize(clients, snapshot) == Cardinality(clients) # Cardinality(snapshot)

\* the members next() can yield: those not yet visited (a member added
\* since the iterator was made is visited or not, by its place in the table)
CanYield(clients, b) == clients \ b.visited

\* the members next() has still to yield before the loop can end: those
\* that have been in the set all along
MustYield(clients, b) == (clients \cap b.snapshot) \ b.visited

\* _broadcast_update has returned: how it ended, and the clients connected
\* for the whole of it that were not sent the message
broadcast_end(b, outcome) ==
    [NoBroadcast EXCEPT !.phase = "done", !.outcome = outcome,
                        !.missed = b.stayed \ b.delivered]

\* _broadcast_update from its start to its first await: the emptiness test,
\* json.dumps, the iterator made and its first client taken
broadcast_begin(w, first) ==
    IF w.ws_clients = {}
    THEN broadcast_end(NoBroadcast, "returned")
    ELSE [NoBroadcast EXCEPT !.phase = "sending", !.snapshot = w.ws_clients,
                             !.visited = {first}, !.current = first,
                             !.stayed = w.ws_clients \cap w.peers]

\* `await client.send(message)` has ended for the current client: delivered,
\* or an exception and the client noted as disconnected
after_send(w, b) ==
    IF b.current \in w.peers
    THEN [b EXCEPT !.delivered = @ \cup {b.current}]
    ELSE [b EXCEPT !.disconnected = @ \cup {b.current}]

\* a task awaits _broadcast_status_update, which reaches _broadcast_update
BroadcastBegin(t) ==
    /\ main_loop # "constructed"
    /\ ws.broadcast[t].phase \in {"none", "done"}
    /\ IF t \in Clients
       THEN ws.handler[t] = "status" /\ ws.broadcast[t].phase = "none"
       ELSE ws.started < MaxBroadcasts
    /\ \E first \in Clients :
          /\ ws.ws_clients # {} => first \in ws.ws_clients
          /\ ws' = [ws EXCEPT !.broadcast[t] = broadcast_begin(ws, first),
                              !.started = IF t \in Clients THEN @ ELSE @ + 1]
    /\ UNCHANGED <<riskVars, coordVars, clientVars, limiterVars, taskVars, cycleVars, callVars, lifecycle>>

\* the send to the current client ends and the loop takes its next step:
\* RuntimeError from the iterator (caught by the outer except, which logs it
\* and returns), the next client, or the end of the loop and the clean-up
BroadcastStep(t) ==
    /\ ws.broadcast[t].phase = "sending"
    /\ LET b == after_send(ws, ws.broadcast[t])
       IN  IF SetChangedSize(ws.ws_clients, b.snapshot)
           THEN ws' = [ws EXCEPT !.broadcast[t] = broadcast_end(b, "RuntimeError")]
           ELSE \/ \E next \in CanYield(ws.ws_clients, b) :
                     ws' = [ws EXCEPT !.broadcast[t] =
                               [b EXCEPT !.visited = @ \cup {next}, !.current = next]]
                \/ /\ MustYield(ws.ws_clients, b) = {}
                   /\ ws' = [ws EXCEPT !.ws_clients = @ \ b.disconnected,
                                       !.broadcast[t] = broadcast_end(b, "completed")]
    /\ UNCHANGED <<riskVars, coordVars, clientVars, limiterVars, taskVars, cycleVars, callVars, lifecycle>>

\* handle_client is started for a new connection: ws_clients.add, then the
\* await of the welcome message
Connect(c) ==
    /\ ws_server = "serving"
    /\ ws.handler[c] = "none"
    /\ ws' = [ws EXCEPT !.ws_clients = @ \cup {c}, !.peers = @ \cup {c},
                        !.handler[c] = "welcome"]
    /\ UNCHANGED <<riskVars, coordVars, clientVars, limiterVars, taskVars, cycleVars, callVars, lifecycle>>

\* the send of the welcome message ends: the handler goes on to await
\* _broadcast_status_update, or ConnectionClosed and the finally clause
WelcomeSent(c) ==
    /\ ws.handler[c] = "welcome"
    /\ ws' = IF c \in ws.peers
             THEN [ws EXCEPT !.handler[c] = "status"]
             ELSE [ws EXCEPT !.handler[c] = "closed", !.ws_clients = @ \ {c}]
    /\ UNCHANGED <<riskVars, coordVars, clientVars, limiterVars, taskVars, cycleVars, callVars, lifecycle>>

\* _broadcast_status_update has returned to handle_client, which reads the
\* connection from now on
HandlerListens(c) ==
    /\ ws.handler[c] = "status"
    /\ ws.broadcast[c].phase = "done"
    /\ ws' = [ws EXCEPT !.handler[c] = "listening"]
    /\ UNCHANGED <<riskVars, coordVars, clientVars, limiterVars, taskVars, cycleVars, callVars, lifecycle>>

\* the other end closes the connection
PeerCloses(c) ==
    /\ c \in ws.peers
    /\ ws' = [ws EXCEPT !.peers = @ \ {c},
                        !.broadcast = [t \in Broadcasters |->
                             IF @[t].phase = "sending"
                             THEN [@[t] EXCEPT !.stayed = @ \ {c}] ELSE @[t]]]
    /\ UNCHANGED <<riskVars, coordVars, clientVars, limiterVars, taskVars, cycleVars, callVars, lifecycle>>

\* the reading loop of handle_client ends on the closed connection: the
\* finally clause discards the client
HandlerEnds(c) ==
    /\ ws.handler[c] = "listening"
    /\ c \notin ws.peers
    /\ ws' = [ws EXCEPT !.handler[c] = "closed", !.ws_clients = @ \ {c}]
    /\ UNCHANGED <<riskVars, coordVars, clientVars, limiterVars, taskVars, cycleVars, callVars, lifecycle>>

NextDashboard ==
    \/ Start
    \/ WebsocketServer
    \/ \E t \in Broadcasters : BroadcastBegin(t)
    \/ \E t \in Broadcasters : BroadcastStep(t)
    \/ \E c \in Clients : Connect(c)
    \/ \E c \in Clients : WelcomeSent(c)
    \/ \E c \in Clients : HandlerListens(c)
    \/ \E c \in Clients : PeerCloses(c)
    \/ \E c \in Clients : HandlerEnds(c)

SpecDashboard == InitCycle /\ [][NextDashboard]_vars

(***************************************************************************)
(* The EnsembleAggregator queried and asked to aggregate.  aggregate is    *)
(* given the predictions of any of the configured models, as its callers   *)
(* and its tests do.                                                       *)
(***************************************************************************)
PredictionInputs ==
    UNION { { [i \in 1..n |-> [model_key |-> i,
                               action |-> f[i].action,
                               confidence |-> f[i].confidence]] :
              f \in [1..n -> [action : Actions, confidence : Confidences]] } :
            n \in 0..MaxModels }

\* _query_model: the model answers (success) or the query fails
QueryModel ==
    /\ \E key \in ModelKeys, success \in BOOLEAN :
          /\ IF success
             THEN model_performance[key].success_count < MaxQueries
             ELSE model_performance[key].failure_count < MaxQueries
          /\ model_performance' = _update_performance(model_performance, key, success)
    /\ fn_call' = NoFnCall
    /\ fn_result' = NoFnResult
    /\ UNCHANGED <<riskVars, coordVars, clientVars, limiterVars, taskVars, cycleVars, engine, serverVars>>

\* aggregate(predictions)
Aggregate ==
    /\ \E predictions \in PredictionInputs :
          LET decision == aggregate(model_performance, predictions)
          IN  /\ fn_call' = [fn |-> "aggregate", predictions |-> predictions]
              /\ fn_result' = [fn |-> "aggregate",
                               action |-> decision.action,
                               confidence |-> decision.confidence]
    /\ UNCHANGED <<riskVars, coordVars, clientVars, limiterVars, taskVars, cycleVars, model_performance, engine, serverVars>>

NextEnsemble ==
    \/ QueryModel
    \/ Aggregate

SpecEnsemble == InitRisk /\ [][NextEnsemble]_vars

(***************************************************************************)
(* The EnsembleEngine on its own.                                          *)
(***************************************************************************)
EngineMethods == {"weighted_vote", "bayesian_weighted", "stacked"}
MetaLearners == {"none", "lightgbm", "classifier"}
\* expected_value_threshold as configured: 0.04, above the default 0.01 that
\* every decision passing the confidence threshold also passes
ExpectedValueThresholds == {400 * Milli}

\* a ModelPrediction: raw score and confidence of one model
ModelOutputs ==
    { [raw_score |-> 900,    confidence |-> 900],
      [raw_score |-> 0 - 800,  confidence |-> 900],
      [raw_score |-> 100,    confidence |-> 0],
      [raw_score |-> 1000,   confidence |-> 1000] }

\* the models that predict
ModelNames == {1, 2, 3}

\* no prediction collected, no decision made
NoPredictions == [fn |-> "aggregate_predictions", predictions |-> <<>>]

\* what calibrator.predict returns (clipped by the caller), or that it raises
Raises == [raises |-> TRUE, value |-> 0]
Gives(x) == [raises |-> FALSE, value |-> x]

CalibratorOutputs(e) ==
    IF e.calibrator THEN {Gives(0 - 200), Gives(850), Gives(1300), Raises}
    ELSE {Raises}

\* what the meta-learner returns: any number from a LightGBM booster
\* (clipped by the caller), a class probability from a classifier, or
\* that it raises
MetaOutputs(e) ==
    IF e.meta_learner = "lightgbm" THEN {Gives(0 - 200), Gives(1300), Raises}
    ELSE IF e.meta_learner = "classifier" THEN {Gives(0), Gives(1000), Raises}
    ELSE {Raises}

InitEngine ==
    /\ now = StartTime
    /\ rm = RiskManagerInit(StartTime)
    /\ verdict = NoVerdict
    /\ call = NoCall
    /\ loss_run = 0
    /\ is_running = FALSE
    /\ main_loop = "constructed"
    /\ open_trades = 0
    /\ shutdown_called = FALSE
    /\ bc = BinanceClientInit(TRUE)
    /\ orders_db = OrdersDbInit(FALSE)
    /\ ret = NoRet
    /\ rl = RateLimiterInit(0)
    /\ rl_now = 0
    /\ rl_waiting = 0
    /\ rl_returned = 0
    /\ health_loop = "constructed"
    /\ ws_server = "disabled"
    /\ cycle = NoCycle
    /\ events = <<>>
    /\ cycles_in_flight = 0
    /\ errors_captured = 0
    /\ model_performance = EnsembleAggregatorInit
    /\ engine \in { EnsembleEngineNew(method, calibrator, meta_learner, threshold) :
                      method \in EngineMethods, calibrator \in BOOLEAN,
                      meta_learner \in MetaLearners,
                      threshold \in ExpectedValueThresholds }
    /\ fn_call = NoFnCall
    /\ fn_result = NoFnResult
    /\ lifecycle = LifecycleInit
    /\ ws = DashboardInit

\* the next model's prediction joins the list that aggregate_predictions
\* will be given
CollectPrediction ==
    /\ LET collected == IF fn_call.fn = "aggregate_predictions" /\ fn_result = NoFnResult
                        THEN fn_call.predictions ELSE <<>>
           name == Len(collected) + 1
       IN  /\ name \in ModelNames
           /\ \E out \in ModelOutputs :
                 fn_call' = [fn |-> "aggregate_predictions",
                             predictions |->
                                Append(collected,
                                       [model_name |-> name,
                                        raw_score  |-> out.raw_score,
                                        confidence |-> out.confidence])]
    /\ fn_result' = NoFnResult
    /\ UNCHANGED <<riskVars, coordVars, clientVars, limiterVars, taskVars, cycleVars, model_performance, engine, serverVars>>

\* aggregate_predictions(predictions, current_price)
AggregatePredictions ==
    /\ fn_result = NoFnResult
    /\ LET predictions == IF fn_call.fn = "aggregate_predictions"
                          THEN fn_call.predictions ELSE <<>>
       IN
       \E calibrated \in CalibratorOutputs(engine), predicted \in MetaOutputs(engine) :
          LET r == aggregate_predictions(engine, predictions, calibrated, predicted)
          IN  /\ fn_call' = [fn |-> "aggregate_predictions",
                             predictions |-> predictions]
              /\ fn_result' = [fn |-> "aggregate_predictions",
                               action |-> r[1].action,
                               confidence |-> r[1].confidence,
                               expected_value |-> r[1].expected_value,
                               reasoning |-> r[1].reasoning]
              /\ engine' = r[2]
    /\ UNCHANGED <<riskVars, coordVars, clientVars, limiterVars, taskVars, cycleVars, model_performance, serverVars>>

\* update_model_performance(model_name, trade_won)
UpdateModelPerformance ==
    /\ \E name \in ModelNames, trade_won \in BOOLEAN :
          engine' = update_model_performance(engine, name, trade_won)
    /\ fn_call' = NoFnCall
    /\ fn_result' = NoFnResult
    /\ UNCHANGED <<riskVars, coordVars, clientVars, limiterVars, taskVars, cycleVars, model_performance, serverVars>>

NextEngine ==
    \/ CollectPrediction
    \/ AggregatePredictions
    \/ UpdateModelPerformance

SpecEngine == InitEngine /\ [][NextEngine]_vars

(***************************************************************************)
(* update_model_performance on its own: an engine that tracks the models   *)
(* of TrackedModels (they have predicted once), with a window of a few     *)
(* outcomes.  fn_call keeps, for every model name, the outcomes reported   *)
(* for it so far.                                                          *)
(***************************************************************************)
MaxOutcomes == 3
PerformanceWindows == {2, 3}
TrackedModels == {1, 2}

InitOutcomes ==
    /\ now = StartTime
    /\ rm = RiskManagerInit(StartTime)
    /\ verdict = NoVerdict
    /\ call = NoCall
    /\ loss_run = 0
    /\ is_running = FALSE
    /\ main_loop = "constructed"
    /\ open_trades = 0
    /\ shutdown_called = FALSE
    /\ bc = BinanceClientInit(TRUE)
    /\ orders_db = OrdersDbInit(FALSE)
    /\ ret = NoRet
    /\ rl = RateLimiterInit(0)
    /\ rl_now = 0
    /\ rl_waiting = 0
    /\ rl_returned = 0
    /\ health_loop = "constructed"
    /\ ws_server = "disabled"
    /\ cycle = NoCycle
    /\ events = <<>>
    /\ cycles_in_flight = 0
    /\ errors_captured = 0
    /\ model_performance = EnsembleAggregatorInit
    /\ \E window \in PerformanceWindows :
          engine = [EnsembleEngineInit EXCEPT
                       !.performance_window = window,
                       !.model_performance =
                           [name \in TrackedModels |-> NewPerformance]]
    /\ fn_call = [fn |-> "update_model_performance", model_name |-> 0,
                  reported |-> [name \in ModelNames |-> <<>>]]
    /\ fn_result = NoFnResult
    /\ lifecycle = LifecycleInit
    /\ ws = DashboardInit

RecordOutcome ==
    /\ \E name \in ModelNames, trade_won \in BOOLEAN :
          /\ Len(fn_call.reported[name]) < MaxOutcomes
          /\ engine' = update_model_performance(engine, name, trade_won)
          /\ fn_call' = [fn |-> "update_model_performance", model_name |-> name,
                         reported |-> [fn_call.reported EXCEPT
                                          ![name] = Append(@, trade_won)]]
    /\ fn_result' = NoFnResult
    /\ UNCHANGED <<riskVars, coordVars, clientVars, limiterVars, taskVars, cycleVars, model_performance, serverVars>>

NextOutcomes == RecordOutcome

SpecOutcomes == InitOutcomes /\ [][NextOutcomes]_vars

(***************************************************************************)
(* Properties of the RiskManager.                                          *)
(***************************************************************************)
\* this step is a validate_trade call (its result is at hand afterwards)
ValidateStep == verdict' # NoVerdict
\* this step is a close_trade call
ClosedCount(s) == Cardinality({i \in DOMAIN s.trades : s.trades[i].closed})
CloseStep == ClosedCount(rm') = ClosedCount(rm) + 1
\* the breaker is OPEN and its cooldown has not elapsed at time t
InCooldown(s, t) ==
    /\ s.circuit_breaker_state = OPEN
    /\ s.circuit_breaker_open_time # None
    /\ t - s.circuit_breaker_open_time < circuit_breaker_cooldown
\* the cumulative daily drawdown is at least pct percent of equity
DrawdownAtLeast(s, pct, equity) == (0 - s.daily_pnl) * 100 >= pct * equity

\* C1 (as claimed): the close that completes a run of
\* circuit_breaker_consecutive_losses losing closes leaves the breaker OPEN
\* with its open time set to the time of that close, and every validate_trade
\* call made while the breaker is OPEN and its cooldown has not elapsed is
\* rejected with the circuit-breaker reason.
C1_AsClaimed ==
    [][ /\ (CloseStep /\ loss_run' = loss_run + 1
               /\ loss_run' >= circuit_breaker_consecutive_losses)
           => (rm'.circuit_breaker_state = OPEN
               /\ rm'.circuit_breaker_open_time = now)
        /\ (ValidateStep /\ InCooldown(rm, now))
           => (~verdict'.valid /\ verdict'.reason = R_BREAKER)
      ]_vars

\* C1 (amended): the same, except that a validate_trade call made during the
\* cooldown is rejected with the emergency-shutdown reason when the
\* emergency-shutdown latch is set, and with the circuit-breaker reason
\* otherwise.
C1_BreakerTrips ==
    [][ /\ (CloseStep /\ loss_run' = loss_run + 1
               /\ loss_run' >= circuit_breaker_consecutive_losses)
           => (rm'.circuit_breaker_state = OPEN
               /\ rm'.circuit_breaker_open_time = now)
        /\ (ValidateStep /\ InCooldown(rm, now))
           => (/\ ~verdict'.valid
               /\ verdict'.reason = IF rm.emergency_shutdown
                                    THEN R_EMERGENCY ELSE R_BREAKER)
      ]_vars

\* C1 witness: a run of losses has opened the breaker and a validate_trade
\* call made during the cooldown was rejected with the circuit-breaker reason.
C1_Witness ==
    /\ loss_run >= circuit_breaker_consecutive_losses
    /\ InCooldown(rm, now)
    /\ now > rm.circuit_breaker_open_time
    /\ Returned
    /\ verdict.reason = R_BREAKER

\* C3: once the emergency-shutdown latch is set, no operation of the
\* RiskManager clears it, and every validate_trade call is rejected with the
\* emergency-shutdown reason.
C3_LatchSticky ==
    [][ rm.emergency_shutdown
        => (/\ rm'.emergency_shutdown
            /\ ValidateStep
               => (~verdict'.valid /\ verdict'.reason = R_EMERGENCY))
      ]_vars

\* C3 witness: the latch is set, a later close was a win that brought the
\* drawdown back under the threshold, and validate_trade was rejected with
\* the emergency-shutdown reason.
C3_Witness ==
    /\ rm.emergency_shutdown
    /\ ~DrawdownAtLeast(rm, emergency_shutdown_loss_percent, AccountEquity)
    /\ Returned
    /\ verdict.reason = R_EMERGENCY

\* C5: whenever a close_trade call leaves the cumulative daily
\* drawdown at or above emergency_shutdown_loss_percent of the account's
\* equity, the latch is set when the call returns.
C5_AsClaimed ==
    [][ (CloseStep
         /\ DrawdownAtLeast(rm', emergency_shutdown_loss_percent, AccountEquity))
        => rm'.emergency_shutdown
      ]_vars

\* The rejection rules in their documented order, each evaluated on the
\* state s at time t; the daily counters are those left by the daily reset
\* when one is due.
ResetDue(s, t) == t - s.daily_reset_time >= DaySeconds
DailyPnlAt(s, t) == IF ResetDue(s, t) THEN 0 ELSE s.daily_pnl
DailyTradesAt(s, t) == IF ResetDue(s, t) THEN 0 ELSE s.daily_trade_count
RuleMatches(k, s, c, t) ==
    CASE k = 1 -> s.emergency_shutdown
      [] k = 2 -> /\ s.circuit_breaker_state = OPEN
                  /\ ~(/\ Truthy(s.circuit_breaker_open_time)
                       /\ t - s.circuit_breaker_open_time
                             >= circuit_breaker_cooldown)
      [] k = 3 -> DailyTradesAt(s, t) >= max_daily_trades
      [] k = 4 -> /\ Truthy(s.initial_equity)
                  /\ DailyPnlAt(s, t) < 0
                  /\ (0 - DailyPnlAt(s, t)) * 100
                        > max_daily_loss_percent * s.initial_equity
      [] k = 5 -> DailyPnlAt(s, t) < 0 - max_daily_loss_usd
      [] k = 6 -> c.metrics.open_positions >= max_open_positions
      [] k = 7 -> c.metrics.total_exposure + c.size > max_total_exposure_usd
      [] k = 8 -> /\ Truthy(s.last_trade_time)
                  /\ t - s.last_trade_time < min_trade_interval
      [] k = 9 -> c.size > c.metrics.available_margin
RuleReason ==
    <<R_EMERGENCY, R_BREAKER, R_TRADES, R_LOSS_PCT, R_LOSS_USD,
      R_POSITIONS, R_EXPOSURE, R_INTERVAL, R_MARGIN>>
Matching(s, c, t) == {k \in 1..9 : RuleMatches(k, s, c, t)}
FirstMatch(s, c, t) ==
    IF Matching(s, c, t) = {} THEN R_NONE
    ELSE RuleReason[CHOOSE k \in Matching(s, c, t) :
                       \A j \in Matching(s, c, t) : k <= j]

\* C6: validate_trade reports the reason of the first matching rule in the
\* documented order, accepts exactly when no rule matches, and gives the same
\* verdict when it is called again with the same arguments at the same time.
C6_FirstMatchReported ==
    [][ ValidateStep
        => (/\ verdict'.reason = FirstMatch(rm, call', now)
            /\ verdict'.valid <=> (Matching(rm, call', now) = {})
            /\ LET again == validate_trade(rm', call'.metrics, call'.size, now)
               IN  /\ again.valid = verdict'.valid
                   /\ again.reason = verdict'.reason)
      ]_vars

\* C6 witness: a call that several rules rejected (open positions, total
\* exposure and margin all matched) reported the open-positions reason.
C6_Witness ==
    /\ Returned
    /\ Cardinality(Matching(rm, call, now)) >= 3
    /\ verdict.reason = R_POSITIONS

(***************************************************************************)
(* Properties of the heartbeat loop.                                       *)
(***************************************************************************)
CooldownElapsed ==
    /\ rm.circuit_breaker_state = OPEN
    /\ rm.circuit_breaker_open_time # None
    /\ now - rm.circuit_breaker_open_time >= circuit_breaker_cooldown

\* C2 (as claimed): if the breaker is OPEN while the coordinator runs and
\* its cooldown has elapsed, the breaker eventually returns to CLOSED (unless
\* the coordinator is stopped or the emergency latch is set meanwhile).
C2_AsClaimed ==
    [](  (is_running /\ main_loop # "done" /\ CooldownElapsed
             /\ ~rm.emergency_shutdown)
         => <>(\/ rm.circuit_breaker_state = CLOSED
               \/ ~is_running
               \/ rm.emergency_shutdown) )

\* C4 (as claimed): while the coordinator runs, no decision cycle is started
\* once the emergency-shutdown latch is set.
C4_AsClaimed ==
    [][ (rm.emergency_shutdown /\ is_running)
        => ~(main_loop = "top" /\ main_loop' = "cycle") ]_vars

(***************************************************************************)
(* Properties of the BinanceClient and of the RateLimiter.                 *)
(***************************************************************************)
TerminalStatus == {FILLED, CANCELED, REJECTED, EXPIRED}

\* C7: once a terminal status is persisted for an order id, no later write
\* leaves the store holding a non-terminal status for that id.
C7_AsClaimed ==
    [][ \A id \in OrderIds :
            orders_db.rows[id].status \in TerminalStatus
                => orders_db'.rows[id].status \in TerminalStatus ]_vars

\* C8: the number of acquire() calls that have returned by time t never
\* exceeds burst + rate * t.
C8_AsClaimed ==
    rl_returned * TokenScale <= burst * TokenScale + rl_now

\* C9: in live mode, when the exchange has acknowledged the parent order,
\* place_order returns the parent's OrderState and the parent is persisted,
\* whether or not a stop loss or take profit was asked for.
C9_AsClaimed ==
    (ret.op = "place_order" /\ ~bc.dry_run /\ ~ret.ack.error)
        => /\ ret.outcome = "OrderState"
           /\ ret.value = FromData(ret.ack)
           /\ _load_order_state(orders_db, ret.ack.orderId) = FromData(ret.ack)

\* C10: in dry-run mode after initialize(), place_order sends no request,
\* returns a FILLED OrderState with filled_qty the rounded quantity and
\* avg_price the given price or 50000, and loading its id returns it.
C10_AsClaimed ==
    (ret.op = "place_order" /\ bc.dry_run)
        => /\ ret.requests = 0
           /\ ret.outcome = "OrderState"
           /\ ret.value.status = FILLED
           /\ ret.value.filled_qty = _round_quantity(ret.quantity)
           /\ ret.value.avg_price =
                  (IF ret.price = None THEN DryRunPrice ELSE ret.price)
           /\ ret.value.order_id \in OrderIds
           /\ _load_order_state(orders_db, ret.value.order_id) = ret.value

\* this step is a _load_order_state call that follows at once a
\* _save_order_state call that returned
LoadAfterSave ==
    /\ fn_call.fn = "_save_order_state"
    /\ fn_result.outcome = "None"
    /\ ret = NoRet
    /\ fn_call'.fn = "_load_order_state"
    /\ fn_call'.order_id = fn_call.order.order_id

\* this step is a _load_order_state call for an id no row is stored for
LoadUnsaved ==
    /\ fn_call'.fn = "_load_order_state"
    /\ fn_result' # fn_result
    /\ orders_db.rows[fn_call'.order_id] = NoOrder

\* C24 (as claimed): loading the id of an OrderState right after it was
\* saved returns a state equal to it in every field, and loading an id that
\* was never saved returns no state.
C24_AsClaimed ==
    [][ /\ LoadAfterSave =>
              /\ fn_result'.outcome = "OrderState"
              /\ fn_result'.value = fn_call.order
        /\ LoadUnsaved =>
              /\ fn_result'.outcome = "None"
              /\ fn_result'.value = NoOrder ]_vars

\* the first half of C24 alone: the round trip of a saved OrderState
C24_RoundTrip ==
    [][ LoadAfterSave =>
              /\ fn_result'.outcome = "OrderState"
              /\ fn_result'.value = fn_call.order ]_vars

\* a saved OrderState with no price and both child ids has been loaded
C24_Loaded ==
    /\ fn_result.fn = "_load_order_state"
    /\ fn_result.outcome = "OrderState"
    /\ fn_result.value.price = None
    /\ fn_result.value.take_profit_order_id # None

\* this step is a place_order call
PlaceOrderStep ==
    /\ ret'.op = "place_order"
    /\ ret' # ret \/ orders_db' # orders_db

\* C29 (as claimed): in live and in dry-run mode, place_order for a LIMIT
\* order with no price sends no request, returns no OrderState and leaves
\* the order store as it was.
C29_AsClaimed ==
    [][ (PlaceOrderStep /\ PriceMissing(ret'.order_type, ret'.price))
          => /\ ret'.requests = 0
             /\ ret'.outcome # "OrderState"
             /\ orders_db' = orders_db ]_vars

\* in live mode a LIMIT order with no price has been refused
C29_LiveRefused ==
    /\ ret.op = "place_order"
    /\ ~bc.dry_run
    /\ PriceMissing(ret.order_type, ret.price)
    /\ ret.outcome = "None"

(***************************************************************************)
(* Properties of the decision cycle and the RiskManager.                   *)
(***************************************************************************)
\* this step is the fusion and risk validation of the cycle
ValidationStep == main_loop = "fusion" /\ cycle'.action # "none"

\* fusion has the responses of every model request of the cycle, validation
\* follows fusion, execution follows an accepting validation of a long or
\* short decision
CycleSerialized ==
    /\ main_loop = "fusion" =>
          /\ cycle.responding # None
          /\ cycle.responding = Len(cycle.predictions)
          /\ cycle.action = "none"
    /\ cycle.action # "none" => cycle.responding # None
    /\ cycle.approved => cycle.action # "none"
    /\ (main_loop = "execute" \/ cycle.placed) =>
          /\ cycle.approved
          /\ cycle.action \in {"long", "short"}

\* C33: in every decision cycle fusion runs after every model request has
\* completed or failed, risk validation after fusion, and an order is placed
\* only if validate_trade accepted in that cycle and the fused action is long
\* or short; a cycle whose validation finds the breaker in cooldown or the
\* emergency latch set places no order.
C33_Serialized ==
    /\ []CycleSerialized
    /\ [][(ValidationStep /\ (rm.emergency_shutdown \/ InCooldown(rm, now)))
             => (main_loop' # "execute" /\ ~cycle'.approved)]_vars
    /\ [][(cycle'.placed /\ ~cycle.placed) => main_loop = "execute"]_vars

\* long decisions were refused, one by the emergency latch and one by a
\* breaker that opened while the cycle was collecting predictions
C33_Witness ==
    /\ main_loop = "sleep"
    /\ cycle.action = "long"
    /\ ~cycle.approved
    /\ ~cycle.placed
    /\ verdict.reason = R_BREAKER

\* the latch refused a long decision
C33_LatchRefused ==
    /\ main_loop = "sleep"
    /\ cycle.action = "long"
    /\ ~cycle.approved
    /\ verdict.reason = R_EMERGENCY

\* this step places an order
OrderPlaced == ~cycle.placed /\ cycle'.placed

\* C35 (as claimed): every order the coordinator places successfully is
\* registered with the RiskManager before the cycle ends: daily_trade_count
\* increases by one and last_trade_time is set.
C35_AsClaimed ==
    [][OrderPlaced =>
          /\ rm'.daily_trade_count = rm.daily_trade_count + 1
          /\ rm'.last_trade_time = now]_vars

\* an order was placed and the cycle has ended with the RiskManager's
\* counters as they were at construction
C35_Unregistered ==
    /\ main_loop = "sleep"
    /\ cycle.placed
    /\ rm.daily_trade_count = 0
    /\ rm.last_trade_time = None

\* C36 (as claimed): in every reachable RiskManager state in which the
\* breaker is CLOSED, consecutive_losses is below
\* circuit_breaker_consecutive_losses.
C36_AsClaimed ==
    rm.circuit_breaker_state = CLOSED
    => rm.consecutive_losses < rm.circuit_breaker_consecutive_losses

\* the breaker that reset on cooldown has been opened again by one loss
C36_ReopenedByOneLoss ==
    /\ rm.circuit_breaker_state = OPEN
    /\ rm.consecutive_losses = rm.circuit_breaker_consecutive_losses + 1

\* C37: the number of tracked open trades never exceeds max_open_positions,
\* and a cycle that starts with open_trades at the limit places no order.
C37_OpenTradesBounded ==
    /\ [](open_trades <= 1)
    /\ [][open_trades >= 1 =>
             /\ open_trades' = open_trades
             /\ ~OrderPlaced]_vars

\* with the limit reached a long decision was refused for the open
\* positions
C37_Witness ==
    /\ open_trades = 1
    /\ cycle.action = "long"
    /\ ~cycle.approved
    /\ ~cycle.placed
    /\ verdict.reason = R_POSITIONS

(***************************************************************************)
(* Properties of the signing of _request                                   *)
(***************************************************************************)
\* an attempt of a signed request has been made
SignedAttempted ==
    /\ fn_call.fn = "_request"
    /\ "signed" \in DOMAIN fn_call
    /\ fn_call.signed
    /\ fn_call.attempts >= 1

\* the caller's parameters plus the timestamp of the last attempt, sorted
CanonicalString == query_string(("timestamp" :> timestamp_ms(fn_call.timestamp)) @@ fn_call.caller)

\* C38 (as claimed): on every attempt of a signed request, retries after a
\* transient error included, the string that is signed is the caller's
\* parameters plus that attempt's timestamp in sorted-key order, with no
\* signature of an earlier attempt in it, and the parameters sent hold the
\* signature of that string.
C38_AsClaimed ==
    SignedAttempted =>
        /\ fn_call.signed_string = CanonicalString
        /\ \A i \in DOMAIN fn_call.signed_string : fn_call.signed_string[i][1] # "signature"
        /\ fn_call.sent["signature"] = hmac_sha256(fn_call.signed_string)

\* C38: a retry of a signed request that was given a params dict has signed
\* a string that holds the signature of the attempt before it
C38_EarlierSignatureSigned ==
    /\ SignedAttempted
    /\ fn_call.attempts >= 2
    /\ \E i \in DOMAIN fn_call.signed_string : fn_call.signed_string[i][1] = "signature"

\* C38: the first attempt of a signed request signs the canonical string,
\* and so does every attempt of a request that was given no params dict
C38_FirstAttemptCanonical ==
    SignedAttempted /\ (fn_call.attempts = 1 \/ ~fn_call.given) =>
        fn_call.signed_string = CanonicalString

\* C38: the parameters sent hold the signature of the string signed by the
\* same attempt, under the one key "signature"
C38_OneSignatureSent ==
    SignedAttempted => fn_call.sent["signature"] = hmac_sha256(fn_call.signed_string)

(***************************************************************************)
(* Properties of the dashboard broadcasts                                  *)
(***************************************************************************)
\* the broadcast of task t has ended
BroadcastEnded(t) == ws.broadcast[t].phase = "done"

\* the clients connected for the whole broadcast of t that were not sent
\* its message
Missed(t) == ws.broadcast[t].missed

\* C39 (as claimed): a broadcast delivers its message to every WebSocket
\* client that stays connected for the whole broadcast, whatever clients
\* connect or disconnect meanwhile and whatever broadcasts the heartbeat,
\* the health check and the connection handlers run at the same time.
C39_AsClaimed == \A t \in Broadcasters : BroadcastEnded(t) => Missed(t) = {}

\* C39: a broadcast has been ended by the RuntimeError of the set iterator
\* with a client connected all along that was never sent the message
C39_BroadcastAborted ==
    \E t \in Broadcasters :
        /\ BroadcastEnded(t)
        /\ ws.broadcast[t].outcome = "RuntimeError"
        /\ Missed(t) # {}

\* C39: a broadcast whose loop reaches its end has delivered the message to
\* every client connected for the whole of it
C39_CompletedDelivers ==
    \A t \in Broadcasters :
        BroadcastEnded(t) /\ ws.broadcast[t].outcome = "completed" => Missed(t) = {}

(***************************************************************************)
(* Properties of update_model_performance.                                 *)
(***************************************************************************)
\* the last outcomes reported for a model, at most `window` of them
LastReported(name, window) ==
    LET all == fn_call.reported[name]
        n   == Len(all)
    IN  IF n <= window THEN all ELSE SubSeq(all, n - window + 1, n)

\* the ring of a tracked model is made of the last outcomes reported, in
\* their order, and its win rate is the share of wins among them
RingOf(name) ==
    LET perf == engine.model_performance[name]
        ring == perf.recent_trades
        wins == Cardinality({i \in DOMAIN ring : ring[i]})
    IN  /\ Len(ring) <= engine.performance_window
        /\ ring = LastReported(name, engine.performance_window)
        /\ ring # <<>> => perf.win_rate = (wins * 100) \div Len(ring)

\* C31: after any sequence of update_model_performance calls the ring of a
\* known model holds at most performance_window outcomes, the most recent
\* ones in arrival order, and win_rate is the wins in the ring divided by its
\* length; a call for an unknown model changes nothing.
C31_OutcomeRing ==
    /\ [](\A name \in DOMAIN engine.model_performance : RingOf(name))
    /\ [][fn_call'.model_name \notin DOMAIN engine.model_performance
             => engine' = engine]_vars

\* a full ring has evicted its oldest outcome, a win, and a call for an
\* unknown model has been made
C31_Witness ==
    /\ \E name \in DOMAIN engine.model_performance :
          /\ Len(fn_call.reported[name]) > engine.performance_window
          /\ fn_call.reported[name][1]
          /\ engine.model_performance[name].win_rate = 0
    /\ \E name \in ModelNames \ DOMAIN engine.model_performance :
          fn_call.reported[name] # <<>>

(***************************************************************************)
(* Properties of start() and main() on an initialization failure.          *)
(***************************************************************************)
InitFailed == fn_result.fn = "main"

\* no task of start() has been created
NoTaskLaunched ==
    /\ main_loop = "never_created"
    /\ health_loop = "constructed"
    /\ ws_server \in {"disabled", "constructed"}
    /\ cycles_in_flight = 0

\* C28 (as claimed): when a collaborator fails to initialize during start()
\* the heartbeat, health-check and broadcast tasks are never launched and
\* the process ends with a non-zero exit code.
C28_AsClaimed ==
    InitFailed => NoTaskLaunched /\ fn_result.exit_code # 0

\* after a failed initialization no task is ever launched
C28_NoTasks == InitFailed => NoTaskLaunched

\* a failed initialization has ended the process with exit code 0
C28_ExitZero == InitFailed /\ fn_result.exit_code = 0

\* start() has returned: after shutdown(), or after the INIT_ERROR return
StartReturned == shutdown_called \/ main_loop = "never_created"

\* C32 (as claimed): on every path by which start() returns, every resource
\* opened during start has been released: the exchange client's HTTP session,
\* the event-sink database connection and the market-data client are closed.
C32_AsClaimed == StartReturned => lifecycle.opened = {}

\* start() has returned through shutdown() and the live exchange client's
\* session is all that is still open
C32_SessionLeft ==
    /\ shutdown_called
    /\ lifecycle.opened = {"binance_client"}

\* the collaborators of `order` that have been initialized, in the order of
\* their initialization
InitializedAmong(order) ==
    SelectSeq(lifecycle.initialized, LAMBDA c : c \in order)

\* C34 (as claimed): start() initializes the collaborators in the order
\* EventSink, MarketData, ExchangeClient, and nothing is written to the
\* EventSink before the EventSink has been initialized.
C34_AsClaimed ==
    /\ LET three == InitializedAmong({"data_logger", "market_data", "binance_client"})
       IN  three = SubSeq(<<"data_logger", "market_data", "binance_client">>,
                          1, Len(three))
    /\ \A i \in DOMAIN lifecycle.written :
          \E j \in DOMAIN lifecycle.written[i].before :
             lifecycle.written[i].before[j] = "data_logger"

\* the STARTUP event was handed to the data logger before any collaborator
\* was initialized, and dropped
C34_StartupDropped ==
    /\ lifecycle.written # <<>>
    /\ lifecycle.written[1].event = "STARTUP"
    /\ lifecycle.written[1].before = <<>>
    /\ ~lifecycle.written[1].stored

(***************************************************************************)
(* Properties of calculate_position_size.                                  *)
(***************************************************************************)
Sized == fn_result.fn = "calculate_position_size"

\* C26 (as claimed): for every method and input the size returned lies
\* within [min_position_size_usd, max_position_size_usd].
C26_AsClaimed ==
    Sized => /\ fn_result.size_usd >= min_position_size_usd
             /\ fn_result.size_usd <= max_position_size_usd

\* C26: for every method and input the size returned is 0, with quantity 0,
\* or lies within [min_position_size_usd, max_position_size_usd].
C26_ZeroOrWithin ==
    Sized => \/ fn_result.size_usd = 0 /\ fn_result.quantity = 0
             \/ /\ fn_result.size_usd >= min_position_size_usd
                /\ fn_result.size_usd <= max_position_size_usd

\* a positive balance whose share falls below the minimum gives size 0
C26_Witness ==
    /\ Sized
    /\ fn_call.account_balance > 0
    /\ fn_result.method = "fixed_fraction"
    /\ fn_result.size_usd = 0

\* the Kelly method was asked with statistics it accepts
KellyCase ==
    /\ Sized
    /\ fn_result.method = "kelly"
    /\ fn_call.win_rate \notin {None, 0}
    /\ fn_call.avg_win \notin {None, 0}
    /\ fn_call.avg_loss > 0

\* equity * clamp((p b - q) / b, 0, 1) * kelly_fraction, written with
\* b = avg_win / avg_loss as equity * kelly_fraction * clamp(p - q l / w)
KellySize ==
    LET p == fn_call.win_rate
        w == fn_call.avg_win
        l == fn_call.avg_loss
        f == (p * w - (100 - p) * l) \div w
        clamped == IF f < 0 THEN 0 ELSE IF f > 100 THEN 100 ELSE f
    IN  (fn_call.account_balance * clamped * 25) \div 10000

\* size * leverage / price, the leverage at most max_leverage
QuantityOf(size) ==
    IF fn_call.current_price > 0
    THEN (size * (IF fn_call.leverage < 5 THEN fn_call.leverage ELSE 5) * 1000)
            \div fn_call.current_price
    ELSE 0

\* equity 10000, price 50000, win rate 0.60, avgWin 0.05, avgLoss 0.02
KellyExample ==
    /\ KellyCase
    /\ fn_call.account_balance = 10000
    /\ fn_call.current_price = 50000
    /\ fn_call.leverage = 1
    /\ fn_call.win_rate = 60
    /\ fn_call.avg_win = 5
    /\ fn_call.avg_loss = 2

\* C27 (as claimed): with method kelly and statistics supplied the size is
\* equity * clamp((p b - q) / b, 0, 1) * kelly_fraction and the quantity
\* size * leverage / price; the example gives size 1100 and quantity 0.022.
C27_AsClaimed ==
    /\ KellyCase =>
          /\ fn_result.size_usd = KellySize
          /\ fn_result.quantity = QuantityOf(KellySize)
    /\ KellyExample =>
          /\ fn_result.size_usd = 1100
          /\ fn_result.quantity = 22

\* C27: with method kelly and statistics supplied the size is
\* equity * clamp((p b - q) / b, 0, 1) * kelly_fraction, lowered to
\* max_position_size_usd and set to 0 below min_position_size_usd, and the
\* quantity is size * leverage / price; the example gives size 1000 and
\* quantity 0.020.
C27_KellySize ==
    /\ KellyCase =>
          LET capped == IF KellySize > 1000 THEN 1000 ELSE KellySize
              size   == IF capped < 10 THEN 0 ELSE capped
          IN  /\ fn_result.size_usd = size
              /\ fn_result.quantity = QuantityOf(size)
    /\ KellyExample =>
          /\ fn_result.size_usd = 1000
          /\ fn_result.quantity = 20

\* the example has been computed
C27_Witness ==
    /\ KellyExample
    /\ fn_result.kelly_fraction = 1100

\* this step is an attempt of _request
AttemptStep ==
    /\ fn_call.fn = "_request"
    /\ fn_call'.fn = "_request"
    /\ fn_call'.attempts = fn_call.attempts + 1

\* the exchange answered the attempt with an HTTP error status
ErrorStatus(answer) == answer.kind = "response" /\ answer.status >= 400

\* C30 (as claimed): one call of _request makes at most 3 attempts; an
\* attempt after the first is made only after a network error or a timeout,
\* never after an answer with an HTTP error status, and such an answer ends
\* the call with the error raised to the caller.
C30_AsClaimed ==
    [][ AttemptStep =>
          /\ fn_call'.attempts <= stop_after_attempt
          /\ fn_call.attempts >= 1 =>
                fn_call.last.kind \in {"network_error", "timeout"}
          /\ ErrorStatus(fn_call'.last) =>
                fn_result' = [fn |-> "_request", outcome |-> "Exception"] ]_vars

\* the three attempts of one call all met a network error or a timeout
C30_Exhausted ==
    /\ fn_call.fn = "_request"
    /\ fn_call.attempts = stop_after_attempt
    /\ fn_result = [fn |-> "_request", outcome |-> "RetryError"]
    /\ fn_call.last.kind = "timeout"

\* this step is a status refresh by monitor_orders
RefreshStep == ret'.op = "monitor_orders" /\ orders_db' # orders_db

CycleSteps == {"cycle", "models", "fusion", "execute"}

\* C11: an error raised in a step of a decision cycle is caught inside the
\* cycle, the heartbeat goes on to its sleep with is_running as it was, and
\* the heartbeat loop ends only when is_running has been cleared
C11_ErrorsCaptured ==
    [][ /\ (errors_captured' > errors_captured =>
               /\ main_loop \in CycleSteps
               /\ main_loop' = "sleep"
               /\ is_running' = is_running)
        /\ (main_loop' = "done" /\ main_loop # "done" =>
               main_loop = "top" /\ ~is_running) ]_vars

\* a later cycle is under way after an error was caught in an earlier one
C11_Witness ==
    /\ errors_captured >= 1
    /\ main_loop = "fusion"
    /\ is_running

\* shutdown has been signalled to a started coordinator
ShutdownSignalled == main_loop # "constructed" /\ ~is_running

\* C12: once shutdown has been signalled, the tasks end and shutdown() runs,
\* whether or not the dashboard WebSocket server is enabled
C12_AsClaimed == ShutdownSignalled ~> (TasksEnded /\ shutdown_called)

\* C13: at most one decision cycle is in flight, and one is in flight
\* exactly while the heartbeat task is inside _decision_cycle
C13_OneCycleInFlight ==
    /\ cycles_in_flight \in {0, 1}
    /\ cycles_in_flight = 1 <=> main_loop \in CycleSteps

\* a second cycle is in flight after the first one placed a trade and
\* returned, with the health-check and WebSocket tasks alive
C13_Witness ==
    /\ cycles_in_flight = 1
    /\ main_loop = "models"
    /\ open_trades = 1
    /\ health_loop = "running"
    /\ ws_server = "serving"

Rank(kind) ==
    CASE kind = "snapshot"   -> 1
      [] kind = "prediction" -> 2
      [] kind = "decision"   -> 3
      [] kind = "order"      -> 4
      [] kind = "trade"      -> 5

\* the records of the heartbeat, the system events left out
Records == SelectSeq(events, LAMBDA kind : kind # "system_event")

RecordCount(kind) == Cardinality({i \in DOMAIN Records : Records[i] = kind})

\* C14: the records of a heartbeat are appended in the order snapshot,
\* predictions, decision, order, trade: at most one snapshot, decision,
\* order and trade, at most one prediction per responding model; and when
\* no append failed, the snapshot comes first, every responding model has
\* its prediction, an order comes with a decision and a trade with its order
C14_SinkOrder ==
    /\ \A i, j \in DOMAIN Records :
          i < j => Rank(Records[i]) <= Rank(Records[j])
    /\ \A kind \in {"snapshot", "decision", "order", "trade"} :
          RecordCount(kind) <= 1
    /\ RecordCount("prediction") <= Len(cycle.predictions)
    /\ ~cycle.sink_failed =>
          /\ Records # <<>> => Records[1] = "snapshot"
          /\ RecordCount("prediction") = Len(cycle.predictions)
          /\ RecordCount("order") = 1 => RecordCount("decision") = 1
          /\ RecordCount("trade") = RecordCount("order")

\* a heartbeat in which two models responded and a trade was executed
C14_Witness ==
    /\ main_loop = "sleep"
    /\ events = <<"snapshot", "prediction", "prediction", "decision",
                  "order", "trade", "system_event">>

\* C15: a cycle in which fewer than min_responding_models models responded
\* ends with a HOLD decision of confidence 0 that carries an
\* insufficient-models reason, and with no order placed
C15_AsClaimed ==
    (/\ main_loop = "sleep"
     /\ cycle.responding # None
     /\ cycle.responding < min_responding_models)
    => /\ cycle.action = "hold"
       /\ cycle.confidence = 0
       /\ cycle.reason = "insufficient models"
       /\ ~cycle.placed

(***************************************************************************)
(* Properties of the loss counter, the circuit breaker and the daily reset *)
(***************************************************************************)
\* the trade that this close_trade step closes, and its outcome
ClosedIndex ==
    CHOOSE i \in DOMAIN rm.trades : ~rm.trades[i].closed /\ rm'.trades[i].closed
ClosedPnl == rm'.trades[ClosedIndex].pnl

\* C16: a close with a negative outcome adds one to consecutive_losses; any
\* other close sets it to zero when circuit_breaker_reset_on_win is
\* configured and leaves it as it was when not; nothing but a close changes it
C16_LossCounter ==
    [][ IF CloseStep
        THEN rm'.consecutive_losses =
                IF ClosedPnl < 0 THEN rm.consecutive_losses + 1
                ELSE IF rm.circuit_breaker_reset_on_win THEN 0
                ELSE rm.consecutive_losses
        ELSE rm'.consecutive_losses = rm.consecutive_losses ]_vars

\* without reset on win, two losses and then a close that was no loss have
\* left the counter at two
C16_Witness ==
    /\ ~rm.circuit_breaker_reset_on_win
    /\ ClosedCount(rm) = 3
    /\ loss_run = 0
    /\ rm.consecutive_losses = 2

\* C17: with circuit_breaker_reset_on_win configured, a winning close made
\* while the breaker is OPEN leaves the breaker CLOSED
C17_AsClaimed ==
    [][ (/\ CloseStep
         /\ rm.circuit_breaker_state = OPEN
         /\ rm.circuit_breaker_reset_on_win
         /\ ClosedPnl > 0)
        => rm'.circuit_breaker_state = CLOSED ]_vars

\* a reset event of the breaker: a validate_trade call that observes the
\* cooldown as elapsed, or a winning close with reset on win configured
BreakerResetEvent ==
    \/ /\ ValidateStep
       /\ rm.circuit_breaker_open_time # None
       /\ now - rm.circuit_breaker_open_time >= circuit_breaker_cooldown
    \/ /\ CloseStep
       /\ rm.circuit_breaker_reset_on_win
       /\ ClosedPnl > 0

\* C18: an OPEN breaker has its open time set, the breaker is opened only by
\* a losing close that brings consecutive_losses to the threshold or above,
\* and it is not OPEN any more once a reset event has happened
C18_AsClaimed ==
    [][ /\ rm'.circuit_breaker_state = OPEN
           => rm'.circuit_breaker_open_time # None
        /\ (rm'.circuit_breaker_state = OPEN /\ rm.circuit_breaker_state # OPEN)
           => (/\ CloseStep
               /\ ClosedPnl < 0
               /\ rm'.consecutive_losses >= rm.circuit_breaker_consecutive_losses
               /\ rm'.circuit_breaker_open_time = now)
        /\ (rm.circuit_breaker_state = OPEN /\ BreakerResetEvent)
           => rm'.circuit_breaker_state # OPEN ]_vars

\* this step performs the daily reset
DailyResetStep == rm'.daily_reset_time # rm.daily_reset_time

\* C19: the daily reset zeroes daily_pnl and daily_trade_count and leaves
\* consecutive_losses, the emergency-shutdown latch and the trade history as
\* they were; the breaker's state and open time are as the breaker check of
\* the same validate_trade call left them
C19_DailyResetFrame ==
    [][ DailyResetStep =>
          /\ ValidateStep
          /\ rm'.daily_reset_time = now
          /\ rm'.daily_pnl = 0
          /\ rm'.daily_trade_count = 0
          /\ rm'.consecutive_losses = rm.consecutive_losses
          /\ rm'.emergency_shutdown = rm.emergency_shutdown
          /\ rm'.trades = rm.trades
          /\ rm'.last_trade_time = rm.last_trade_time
          /\ rm'.initial_equity = rm.initial_equity
          /\ IF CooldownElapsed
             THEN /\ rm'.circuit_breaker_state = CLOSED
                  /\ rm'.circuit_breaker_open_time = None
             ELSE /\ rm'.circuit_breaker_state = rm.circuit_breaker_state
                  /\ rm'.circuit_breaker_open_time = rm.circuit_breaker_open_time
      ]_vars

\* a validate_trade call has just performed the daily reset with losses
\* counted and trades in the history
C19_Witness ==
    /\ Returned
    /\ rm.daily_reset_time = now
    /\ rm.daily_reset_time > StartTime
    /\ rm.consecutive_losses >= 2
    /\ Len(rm.trades) >= 2

\* C20: every validate_trade call made when a day or more has passed since
\* the last daily reset performs the reset, whatever it rejects on
C20_AsClaimed ==
    [][ (ValidateStep /\ ResetDue(rm, now))
        => (/\ rm'.daily_reset_time = now
            /\ rm'.daily_pnl = 0
            /\ rm'.daily_trade_count = 0) ]_vars

(***************************************************************************)
(* Properties of the EnsembleAggregator                                    *)
(***************************************************************************)
Aggregated == fn_result.fn = "aggregate"

\* every prediction given names action a
Unanimous(predictions, a) ==
    /\ predictions # <<>>
    /\ \A i \in DOMAIN predictions : predictions[i].action = a

\* C21: when every prediction given to aggregate names the same action with
\* positive confidence, the decision is that action, with a confidence that
\* is a weighted mean of the confidences given (not below the smallest, not
\* above the largest)
C21_AsClaimed ==
    \A a \in Actions :
        (/\ Aggregated
         /\ Unanimous(fn_call.predictions, a)
         /\ \A i \in DOMAIN fn_call.predictions :
               fn_call.predictions[i].confidence > 0)
        => /\ fn_result.action = a
           /\ \E i \in DOMAIN fn_call.predictions :
                 fn_result.confidence >= fn_call.predictions[i].confidence
           /\ \E i \in DOMAIN fn_call.predictions :
                 fn_result.confidence <= fn_call.predictions[i].confidence

(***************************************************************************)
(* Properties of the EnsembleEngine.                                       *)
(***************************************************************************)
\* aggregate_predictions has just returned
EngineReturned == fn_result.fn = "aggregate_predictions"

\* C22: every decision aggregate_predictions returns, under every fusion
\* method, with or without a calibrator and a meta-learner, for predictions
\* with confidences in [0, 1] and raw scores in [-1, 1], has a confidence
\* within [0, 1].
C22_ConfidenceInRange ==
    EngineReturned =>
        /\ fn_result.confidence >= 0
        /\ fn_result.confidence <= Milli

\* a trading decision of full confidence from an engine whose calibrator
\* answered outside [0, 1]
C22_Witness ==
    /\ EngineReturned
    /\ engine.calibrator
    /\ engine.meta_learner = "none"
    /\ fn_result.action # HOLD
    /\ fn_result.confidence = Milli


\* the raw scores aggregate_predictions was given
RawScores == [i \in DOMAIN fn_call.predictions |-> fn_call.predictions[i].raw_score]

\* the population variance of the raw scores, times the square of their
\* number (in units of 1e-6)
ScaledVariance(x) ==
    LET n == Len(x)
        RECURSIVE Sum(_), SumSquares(_)
        Sum(k) == IF k = 0 THEN 0 ELSE x[k] + Sum(k - 1)
        SumSquares(k) == IF k = 0 THEN 0 ELSE x[k] * x[k] + SumSquares(k - 1)
    IN  n * SumSquares(n) - Sum(n) * Sum(n)

\* the standard deviation of the raw scores does not exceed the threshold
WithinUncertainty(x) ==
    ScaledVariance(x)
        <= uncertainty_threshold * uncertainty_threshold * Len(x) * Len(x)

\* C23: aggregate_predictions returns an action other than HOLD only if at
\* least min_responding_models predictions were given, the standard
\* deviation of their raw scores does not exceed uncertainty_threshold, the
\* confidence of the action is at least confidence_threshold and its
\* expected value after costs at least expected_value_threshold; raw scores
\* 0.9, -0.8, 0.1 give HOLD for model disagreement.
C23_GatedDecision ==
    EngineReturned =>
        /\ fn_result.action # HOLD =>
              /\ Len(RawScores) >= engine.min_responding_models
              /\ WithinUncertainty(RawScores)
              /\ fn_result.confidence >= confidence_threshold
              /\ fn_result.expected_value >= engine.expected_value_threshold
        /\ RawScores = <<900, 0 - 800, 100>> =>
              /\ fn_result.action = HOLD
              /\ fn_result.reasoning = E_DISAGREEMENT

\* three agreeing models produce a trading decision
C23_Witness ==
    /\ EngineReturned
    /\ Len(RawScores) = 3
    /\ fn_result.action # HOLD
    /\ fn_result.reasoning = E_SIGNAL

\* the example of the claim has been decided
C23_Example ==
    /\ EngineReturned
    /\ RawScores = <<900, 0 - 800, 100>>

====
